---- MODULE Spec2Model ----
(***************************************************************************)
(* Offensive-AI Cybersecurity Simulator: the React front end               *)
(* (frontend/src/components/*.jsx, frontend/src/services/api.js) as a      *)
(* state machine, one group of variables per component, and the attack     *)
(* loop of the password back end as the design document describes it.      *)
(*                                                                         *)
(* Conventions                                                             *)
(*   - a JavaScript string is a sequence of one-character strings;         *)
(*   - null / undefined is the empty sequence Null, a present value v is   *)
(*     the one-element sequence Some(v);                                   *)
(*   - the text of an <input type="number"> is Null when it is empty and   *)
(*     Some(n) when it holds the integer n;                                *)
(*   - scores are whole numbers (the code compares them with whole-number  *)
(*     thresholds only).                                                   *)
(***************************************************************************)
EXTENDS Integers, Sequences, FiniteSets, TLC

VARIABLES
    \* ---- App.jsx
    appActiveTab,     \* activeTab: the one view that is mounted
    refreshIntervals, \* per view, the period of the auto-refresh interval its
                      \* mount effect set, Null once cleared
    \* ---- Dashboard.jsx
    dashPasswordStats,  \* passwordStats
    dashPhishingStats,  \* phishingStats
    dashVishingStats,   \* vishingStats
    dashLoading,        \* loading
    dashCalls,          \* the loadAllStats calls at their await, oldest first
    dashRejected,       \* what started the call whose Promise.all rejected last
    dashToast,          \* the last toast shown
    \* ---- the attack loop of the back end (design document, 4.1 - 4.3)
    atkRequest,       \* the request body being served
    atkPhase,         \* "running" or "done"
    atkAttempts,      \* attempts
    atkCracked,       \* cracked
    atkView,          \* what the Result Status block reads once rendered
    \* ---- risk level rendering (getRiskLabel of the three simulators)
    riskScore,        \* the overall_risk.overall_risk of the result on display
    riskView,         \* which simulator rendered it last ("none" before any)
    riskLabel,        \* the label that simulator printed
    riskBadge,        \* the badge class it chose
    riskColor,        \* the colour class it chose
    \* ---- PasswordSimulator.jsx
    pwForm,           \* formData {password, attackType, maxAttempts, maxLength}
    pwShowAdvanced,   \* showAdvanced
    pwActiveTab,      \* activeTab: "analyze" or "crack"
    pwCrackDom,       \* the uncontrolled inputs of the crack-hash form
    pwResult,         \* result
    pwLoading,        \* loading
    pwProgress,       \* attackProgress
    pwRequest,        \* the analyze / crack-hash request in flight
    pwTimers,         \* live progress intervals, by the handler that set them
    pwTimeouts,       \* pending 500 ms timeouts that clear the progress bar
    pwHist,           \* history and the getHistory requests in flight
    pwStats,          \* stats and the getStats requests in flight
    pwToast,          \* the last toast shown
    pwShowMetadata,   \* showMetadata
    pwAnswered,       \* of the request whose answer `result` holds, the form
                      \* it came from and the hash_type it carried
    pwExported,       \* the data of the last file exportResults wrote
    \* ---- PhishingSimulator.jsx
    phForm,           \* formData {emailSubject, emailBody, senderEmail}
    phResult,         \* result
    phLoading,        \* loading
    phRequest,        \* the analyze request in flight, Null when none
    phHist,           \* history and the getHistory requests in flight
    phToast,          \* the last toast shown
    \* ---- VishingSimulator.jsx
    viForm,           \* formData {callScript, callerId, callDuration}
    viResult,
    viLoading,
    viRequest,
    viHist,
    viToast,
    viSelectedFile,          \* selectedFile
    viLoadingTranscription   \* loadingTranscription

appVars == <<appActiveTab, refreshIntervals>>
dashVars == <<dashPasswordStats, dashPhishingStats, dashVishingStats, dashLoading,
             dashCalls, dashRejected, dashToast>>
atkVars == <<atkRequest, atkPhase, atkAttempts, atkCracked, atkView>>
riskVars == <<riskScore, riskView, riskLabel, riskBadge, riskColor>>
pwVars == <<pwForm, pwShowAdvanced, pwActiveTab, pwCrackDom, pwResult, pwLoading,
           pwProgress, pwRequest, pwTimers, pwTimeouts, pwHist, pwStats, pwToast,
           pwShowMetadata, pwAnswered, pwExported>>
phVars == <<phForm, phResult, phLoading, phRequest, phHist, phToast>>
viVars == <<viForm, viResult, viLoading, viRequest, viHist, viToast,
           viSelectedFile, viLoadingTranscription>>
vars == <<appVars, dashVars, atkVars, riskVars, pwVars, phVars, viVars>>

\* the variables of the other components, which a component never touches
notDash == <<appVars, atkVars, riskVars, pwVars, phVars, viVars>>
notAtk == <<appVars, dashVars, riskVars, pwVars, phVars, viVars>>
notRisk == <<appVars, dashVars, atkVars, pwVars, phVars, viVars>>
notPw == <<appVars, dashVars, atkVars, riskVars, phVars, viVars>>
notPh == <<appVars, dashVars, atkVars, riskVars, pwVars, viVars>>
notVi == <<appVars, dashVars, atkVars, riskVars, pwVars, phVars>>

Null == <<>>
Some(v) == <<v>>
Val(x) == x[1]

Min(a, b) == IF a <= b THEN a ELSE b
Max(a, b) == IF a >= b THEN a ELSE b

----------------------------------------------------------------------------
(* String.prototype.trim: drop the white space at both ends.               *)

RECURSIVE TrimStart(_)
TrimStart(s) ==
    IF s # <<>> /\ Head(s) = " " THEN TrimStart(Tail(s)) ELSE s

RECURSIVE TrimEnd(_)
TrimEnd(s) ==
    IF s # <<>> /\ s[Len(s)] = " " THEN TrimEnd(SubSeq(s, 1, Len(s) - 1)) ELSE s

Trim(s) == TrimEnd(TrimStart(s))

\* !s.trim() : the handlers' test for a blank field
Blank(s) == Trim(s) = <<>>

----------------------------------------------------------------------------
(* Number inputs                                                           *)

\* the text "w" or "w.f" of a number input (f one decimal digit, w >= 0
\* when f is not 0)
Num(w, f) == Some([whole |-> w, frac |-> f])

\* parseInt(text): the leading integer of the text, NaN (Null) when empty
ParseInt(text) == IF text = Null THEN Null ELSE Some(Val(text).whole)

\* `x || d` for a parsed number: NaN and 0 are falsy
OrElse(parsed, d) ==
    IF parsed = Null THEN d
    ELSE IF Val(parsed) = 0 THEN d ELSE Val(parsed)

\* parseFloat(text) of a text without a fraction
ParseFloat(text) == IF text = Null THEN Null ELSE Some(Val(text).whole)

----------------------------------------------------------------------------
(* Risk levels                                                             *)

\* getRiskLabel with exclusive lower bounds
PwGetRiskLabelExclusive(score) ==
    IF score > 80 THEN "Critical"
    ELSE IF score > 60 THEN "High"
    ELSE IF score > 40 THEN "Medium"
    ELSE IF score > 20 THEN "Low"
    ELSE "Very Low"

\* PasswordSimulator.jsx getRiskLabel; the view prints `${label} Risk`
PwGetRiskLabel(score) ==
    IF score >= 80 THEN "Critical"
    ELSE IF score >= 60 THEN "High"
    ELSE IF score >= 40 THEN "Medium"
    ELSE IF score >= 20 THEN "Low"
    ELSE "Very Low"

\* PhishingSimulator.jsx getRiskLabel
PhGetRiskLabel(score) ==
    IF score >= 80 THEN "Critical Risk"
    ELSE IF score >= 60 THEN "High Risk"
    ELSE IF score >= 40 THEN "Medium Risk"
    ELSE "Low Risk"

\* VishingSimulator.jsx getRiskLabel
ViGetRiskLabel(score) ==
    IF score >= 80 THEN "Critical Risk"
    ELSE IF score >= 60 THEN "High Risk"
    ELSE IF score >= 40 THEN "Medium Risk"
    ELSE "Low Risk"

\* PasswordSimulator.jsx getRiskColor
PwGetRiskColor(score) ==
    IF score >= 80 THEN "text-red-700 bg-red-50 border-red-200"
    ELSE IF score >= 60 THEN "text-orange-700 bg-orange-50 border-orange-200"
    ELSE IF score >= 40 THEN "text-yellow-700 bg-yellow-50 border-yellow-200"
    ELSE "text-green-700 bg-green-50 border-green-200"

\* PhishingSimulator.jsx getRiskColor
PhGetRiskColor(score) ==
    IF score >= 80 THEN "text-red-700 bg-red-50 border-red-200"
    ELSE IF score >= 60 THEN "text-orange-700 bg-orange-50 border-orange-200"
    ELSE IF score >= 40 THEN "text-yellow-700 bg-yellow-50 border-yellow-200"
    ELSE "text-green-700 bg-green-50 border-green-200"

\* VishingSimulator.jsx getRiskColor
ViGetRiskColor(score) ==
    IF score >= 80 THEN "text-red-700 bg-red-50 border-red-200"
    ELSE IF score >= 60 THEN "text-orange-700 bg-orange-50 border-orange-200"
    ELSE IF score >= 40 THEN "text-yellow-700 bg-yellow-50 border-yellow-200"
    ELSE "text-green-700 bg-green-50 border-green-200"

\* getRiskBadge with the classes of its two middle branches exchanged for
\* the class of the last
PwGetRiskBadgeDipping(score) ==
    IF score >= 80 THEN "badge-danger"
    ELSE IF score >= 60 THEN "badge-success"
    ELSE IF score >= 40 THEN "badge-warning"
    ELSE "badge-success"

\* PasswordSimulator.jsx getRiskBadge
PwGetRiskBadge(score) ==
    IF score >= 80 THEN "badge-danger"
    ELSE IF score >= 60 THEN "badge-warning"
    ELSE IF score >= 40 THEN "badge-warning"
    ELSE "badge-success"

\* PhishingSimulator.jsx getRiskBadge
PhGetRiskBadge(score) ==
    IF score >= 80 THEN "badge-danger"
    ELSE IF score >= 60 THEN "badge-warning"
    ELSE "badge-success"

\* VishingSimulator.jsx getRiskBadge
ViGetRiskBadge(score) ==
    IF score >= 80 THEN "badge-danger"
    ELSE IF score >= 60 THEN "badge-warning"
    ELSE "badge-success"

\* the levels of a risk profile (risk_profile.risk_level of a response)
RiskLevels == {"Very Low", "Low", "Medium", "High", "Critical"}

\* UserBehaviorAnalysis.jsx, Analysis Results: the class of the risk badge
BhRiskBadge(level) ==
    IF level = "Low" THEN "badge-success"
    ELSE IF level = "Medium" THEN "badge-warning"
    ELSE "badge-danger"

\* UserBehaviorAnalysis.jsx, Risk Profile: the classes of the Risk Level panel
BhRiskPanel(level) ==
    IF level = "Low" THEN "bg-green-50 border-green-200"
    ELSE IF level = "Medium" THEN "bg-yellow-50 border-yellow-200"
    ELSE IF level = "High" THEN "bg-orange-50 border-orange-200"
    ELSE "bg-red-50 border-red-200"

----------------------------------------------------------------------------
(* History of a simulator: loadHistory issues a GET and, when the answer   *)
(* comes, stores it with setHistory; nothing orders the answers.  The      *)
(* requests are told apart by age only: `latest` says that the request     *)
(* issued last is still in flight, `older` counts the earlier ones still   *)
(* in flight (MaxOlderReqs stands for "that many or more"), `shown` says    *)
(* whose answer is on display.                                             *)

\* at most this many superseded getHistory requests in flight at a time
MaxOlderReqs == 1

\* useState([]) and the loadHistory() of the mount effect
HistMounted == [latest |-> TRUE, older |-> 0, shown |-> "none"]

\* loadHistory(): the GET is sent
LoadHistory(h) ==
    [latest |-> TRUE,
     older |-> IF h.latest THEN Min(h.older + 1, MaxOlderReqs) ELSE h.older,
     shown |-> IF h.shown = "latest" THEN "older" ELSE h.shown]

\* the answer to the request issued last: setHistory(response.data)
HistLatestOk(h) == [h EXCEPT !.latest = FALSE, !.shown = "latest"]

\* the answer to an earlier request: setHistory(response.data) all the same
HistOlderOk(h) == [h EXCEPT !.older = @ - 1, !.shown = "older"]

\* catch: console.error only
HistLatestFail(h) == [h EXCEPT !.latest = FALSE]
HistOlderFail(h) == [h EXCEPT !.older = @ - 1]

\* what a request that completes leaves of the requests in flight
HistDone(h, which, ok) ==
    IF which = "latest"
    THEN (IF ok THEN HistLatestOk(h) ELSE HistLatestFail(h))
    ELSE (IF ok THEN HistOlderOk(h) ELSE HistOlderFail(h))

\* is there a request of that age in flight
HistPending(h, which) == IF which = "latest" THEN h.latest ELSE h.older > 0

----------------------------------------------------------------------------
(* Inputs                                                                  *)

\* what is typed into a text field: nothing, white space, text
TextInputs == {<<>>, <<" ">>, <<"a">>, <<" ", "a", " ">>}

\* overall_risk.overall_risk of the responses (0..100, see MaxScore)
SampleScores == {10, 85}

\* risk scores and strength scores lie in 0..MaxScore
MaxScore == 100

\* response.data of an analyze or crack-hash request
ResultSamples == {[cracked |-> Some(<<"a">>), attempts |-> 3, overall_risk |-> 85]}

\* services/api.js: axios.create({baseURL, headers}) gives the requests no
\* timeout
ApiTimeout == Null

\* error.response?.data?.detail of a failed request: absent or a text
ErrorDetails == {Null, Some("detail")}

----------------------------------------------------------------------------
(* PhishingSimulator.jsx                                                   *)

\* useState({emailSubject: '', emailBody: '', senderEmail: ''})
PhFormDefault == [emailSubject |-> <<>>, emailBody |-> <<>>, senderEmail |-> <<>>]

PhInit ==
    /\ phForm = PhFormDefault
    /\ phResult = Null
    /\ phLoading = FALSE
    /\ phRequest = Null
    /\ phHist = HistMounted
    /\ phToast = "none"

\* onChange of the three fields
PhSetField(f, s) ==
    /\ appActiveTab = "phishing"
    /\ UNCHANGED notPh
    /\ phForm' = [phForm EXCEPT ![f] = s]
    /\ UNCHANGED <<phResult, phLoading, phRequest, phHist, phToast>>

\* loadSampleEmail: both samples fill the three fields with text
PhLoadSample ==
    /\ appActiveTab = "phishing"
    /\ UNCHANGED notPh
    /\ phForm' = [emailSubject |-> <<"a">>, emailBody |-> <<"a">>,
                  senderEmail |-> <<"a">>]
    /\ UNCHANGED <<phResult, phLoading, phRequest, phHist, phToast>>

\* the browser lets the form submit: the button is enabled and the
\* `required` subject and body are not empty
PhCanSubmit ==
    /\ ~phLoading
    /\ phForm.emailSubject # <<>>
    /\ phForm.emailBody # <<>>

\* handleSubmit's guard
PhRejects(form) == Blank(form.emailSubject) \/ Blank(form.emailBody)

\* handleSubmit up to the await
PhSubmit ==
    /\ appActiveTab = "phishing"
    /\ UNCHANGED notPh
    /\ PhCanSubmit
    /\ IF PhRejects(phForm)
       THEN /\ phToast' = "Please fill in all required fields"
            /\ UNCHANGED <<phForm, phResult, phLoading, phRequest, phHist>>
       ELSE /\ phLoading' = TRUE
            /\ phResult' = Null
            /\ phRequest' = Some([email_subject |-> phForm.emailSubject,
                                  email_body |-> phForm.emailBody,
                                  sender_email |-> phForm.senderEmail])
            /\ UNCHANGED <<phForm, phHist, phToast>>

\* handleSubmit after the await, the request answered
PhAnalyzeOk(score) ==
    /\ appActiveTab = "phishing"
    /\ UNCHANGED notPh
    /\ phRequest # Null
    /\ phResult' = Some([overall_risk |-> score])
    /\ phToast' = "Phishing analysis complete!"
    /\ phHist' = LoadHistory(phHist)
    /\ phLoading' = FALSE
    /\ phRequest' = Null
    /\ UNCHANGED phForm

\* handleSubmit after the await, the request failed
PhAnalyzeFail(detail) ==
    /\ appActiveTab = "phishing"
    /\ UNCHANGED notPh
    /\ phRequest # Null
    /\ phToast' = IF detail # Null THEN Val(detail) ELSE "Analysis failed"
    /\ phLoading' = FALSE
    /\ phRequest' = Null
    /\ UNCHANGED <<phForm, phResult, phHist>>

\* the 10 s interval and the Refresh button (shown with the history)
PhReload(trigger) ==
    /\ IF trigger = "timer" THEN refreshIntervals["phishing"] # Null
       ELSE appActiveTab = "phishing" /\ phHist.shown # "none"
    /\ UNCHANGED notPh
    /\ phHist' = LoadHistory(phHist)
    /\ UNCHANGED <<phForm, phResult, phLoading, phRequest, phToast>>

\* loadHistory after its await
PhHistoryDone(which, ok) ==
    /\ appActiveTab = "phishing"
    /\ UNCHANGED notPh
    /\ HistPending(phHist, which)
    /\ phHist' = HistDone(phHist, which, ok)
    /\ UNCHANGED <<phForm, phResult, phLoading, phRequest, phToast>>

----------------------------------------------------------------------------
(* VishingSimulator.jsx: the analysis form                                 *)

\* what is typed into the Call Duration field
DurationInputs == {Null, Num(-5, 0), Num(180, 0)}

\* the value onChange of Call Duration stores
DurationTyped(text) == OrElse(ParseFloat(text), 0)

\* useState({callScript: '', callerId: '', callDuration: 0})
ViFormDefault == [callScript |-> <<>>, callerId |-> <<>>, callDuration |-> 0]

ViInit ==
    /\ viForm = ViFormDefault
    /\ viResult = Null
    /\ viLoading = FALSE
    /\ viRequest = Null
    /\ viHist = HistMounted
    /\ viToast = "none"
    /\ viSelectedFile = Null
    /\ viLoadingTranscription = FALSE

\* onChange of the script and the caller id
ViSetField(f, s) ==
    /\ appActiveTab = "vishing"
    /\ UNCHANGED notVi
    /\ UNCHANGED <<viSelectedFile, viLoadingTranscription>>
    /\ viForm' = [viForm EXCEPT ![f] = s]
    /\ UNCHANGED <<viResult, viLoading, viRequest, viHist, viToast>>

\* onChange of the duration
ViSetDuration(text) ==
    /\ appActiveTab = "vishing"
    /\ UNCHANGED notVi
    /\ UNCHANGED <<viSelectedFile, viLoadingTranscription>>
    /\ viForm' = [viForm EXCEPT !.callDuration = DurationTyped(text)]
    /\ UNCHANGED <<viResult, viLoading, viRequest, viHist, viToast>>

\* loadSampleCall
ViLoadSample ==
    /\ appActiveTab = "vishing"
    /\ UNCHANGED notVi
    /\ UNCHANGED <<viSelectedFile, viLoadingTranscription>>
    /\ viForm' = [callScript |-> <<"a">>, callerId |-> <<"a">>, callDuration |-> 180]
    /\ UNCHANGED <<viResult, viLoading, viRequest, viHist, viToast>>

\* the browser lets the form submit: button enabled, the `required` script
\* not empty, the duration not below its min="0"
ViCanSubmit ==
    /\ ~viLoading
    /\ viForm.callScript # <<>>
    /\ viForm.callDuration >= 0

\* handleSubmit's guard
ViRejects(form) == Blank(form.callScript)

\* handleSubmit up to the await
ViSubmit ==
    /\ appActiveTab = "vishing"
    /\ UNCHANGED notVi
    /\ UNCHANGED <<viSelectedFile, viLoadingTranscription>>
    /\ ViCanSubmit
    /\ IF ViRejects(viForm)
       THEN /\ viToast' = "Please enter a call script"
            /\ UNCHANGED <<viForm, viResult, viLoading, viRequest, viHist>>
       ELSE /\ viLoading' = TRUE
            /\ viResult' = Null
            /\ viRequest' = Some([call_script |-> viForm.callScript,
                                  caller_id |-> viForm.callerId,
                                  call_duration |-> viForm.callDuration])
            /\ UNCHANGED <<viForm, viHist, viToast>>

\* handleSubmit after the await, the request answered
ViAnalyzeOk(score) ==
    /\ appActiveTab = "vishing"
    /\ UNCHANGED notVi
    /\ UNCHANGED <<viSelectedFile, viLoadingTranscription>>
    /\ viRequest # Null
    /\ viResult' = Some([overall_risk |-> score])
    /\ viToast' = "Vishing analysis complete!"
    /\ viHist' = LoadHistory(viHist)
    /\ viLoading' = FALSE
    /\ viRequest' = Null
    /\ UNCHANGED viForm

\* handleSubmit after the await, the request failed
ViAnalyzeFail(detail) ==
    /\ appActiveTab = "vishing"
    /\ UNCHANGED notVi
    /\ UNCHANGED <<viSelectedFile, viLoadingTranscription>>
    /\ viRequest # Null
    /\ viToast' = IF detail # Null THEN Val(detail) ELSE "Analysis failed"
    /\ viLoading' = FALSE
    /\ viRequest' = Null
    /\ UNCHANGED <<viForm, viResult, viHist>>

\* the 10 s interval and the Refresh button (shown with the history)
ViReload(trigger) ==
    /\ IF trigger = "timer" THEN refreshIntervals["vishing"] # Null
       ELSE appActiveTab = "vishing" /\ viHist.shown # "none"
    /\ UNCHANGED notVi
    /\ UNCHANGED <<viSelectedFile, viLoadingTranscription>>
    /\ viHist' = LoadHistory(viHist)
    /\ UNCHANGED <<viForm, viResult, viLoading, viRequest, viToast>>

\* loadHistory after its await
ViHistoryDone(which, ok) ==
    /\ appActiveTab = "vishing"
    /\ UNCHANGED notVi
    /\ UNCHANGED <<viSelectedFile, viLoadingTranscription>>
    /\ HistPending(viHist, which)
    /\ viHist' = HistDone(viHist, which, ok)
    /\ UNCHANGED <<viForm, viResult, viLoading, viRequest, viToast>>

----------------------------------------------------------------------------
(* VishingSimulator.jsx: the upload of a call recording.  A File is its    *)
(* name, its MIME type and its size in bytes.                              *)

\* String.prototype.toLowerCase, over the letters the file names use
ToLowerCase(s) ==
    [i \in 1..Len(s) |->
        CASE s[i] = "M" -> "m"
          [] s[i] = "P" -> "p"
          [] s[i] = "T" -> "t"
          [] s[i] = "X" -> "x"
          [] OTHER -> s[i]]

\* String.prototype.endsWith
EndsWith(s, suffix) ==
    /\ Len(s) >= Len(suffix)
    /\ SubSeq(s, Len(s) - Len(suffix) + 1, Len(s)) = suffix

\* validExtensions.some(ext => fileName.endsWith(ext))
HasValidExtension(file) ==
    \E ext \in {<<".", "m", "p", "3">>, <<".", "w", "a", "v">>,
                <<".", "m", "4", "a">>} :
        EndsWith(ToLowerCase(file.name), ext)

\* validFormats.includes(file.type) || file.type === 'audio/m4a'
HasValidMimetype(file) ==
    \/ file.type \in {"audio/mpeg", "audio/wav", "audio/mp4", "audio/x-wav"}
    \/ file.type = "audio/m4a"

\* the size limit of a recording, in bytes
MaxFileBytes == 50 * 1024 * 1024

\* the files offered to the file input
FileInputs ==
    [name : {<<"a", ".", "M", "P", "3">>, <<"a", ".", "t", "x", "t">>},
     type : {"audio/mpeg", "text/plain"},
     size : {1024, MaxFileBytes, MaxFileBytes + 1}]

\* handleFileSelect, for a file chosen in the file input (which is disabled
\* during a transcription)
ViFileSelect(file) ==
    /\ appActiveTab = "vishing"
    /\ UNCHANGED notVi
    /\ ~viLoadingTranscription
    /\ IF ~HasValidExtension(file) /\ ~HasValidMimetype(file)
       THEN /\ viToast' = "Invalid format. Please upload mp3, wav, or m4a files."
            /\ UNCHANGED viSelectedFile
       ELSE IF file.size > MaxFileBytes
       THEN /\ viToast' = "File size exceeds 50MB limit"
            /\ UNCHANGED viSelectedFile
       ELSE /\ viSelectedFile' = Some(file)
            /\ UNCHANGED viToast
    /\ UNCHANGED <<viForm, viResult, viLoading, viRequest, viHist,
                   viLoadingTranscription>>

\* handleTranscribe, its button enabled: services/api.js gives vishingAPI no
\* transcribe, so the call throws inside the try before anything is sent;
\* catch and finally run at once
ViTranscribe ==
    /\ appActiveTab = "vishing"
    /\ UNCHANGED notVi
    /\ viSelectedFile # Null
    /\ ~viLoadingTranscription
    /\ viToast' = "Transcription failed"
    /\ viLoadingTranscription' = FALSE
    /\ UNCHANGED <<viForm, viResult, viLoading, viRequest, viHist, viSelectedFile>>

\* response.data?.transcript of a transcription: absent, empty or a text
TranscriptSamples == {Null, Some(<<>>), Some(<<"t">>)}

\* handleTranscribe up to the await, with the vishingAPI of the api module
\* listed after App.jsx, which has a transcribe: the POST is sent
ViTranscribeSend ==
    /\ appActiveTab = "vishing"
    /\ UNCHANGED notVi
    /\ viSelectedFile # Null
    /\ ~viLoadingTranscription
    /\ viLoadingTranscription' = TRUE
    /\ UNCHANGED <<viForm, viResult, viLoading, viRequest, viHist, viToast,
                   viSelectedFile>>

\* the answer with a transcript that replaces the whole form
ViTranscribeOkResetsForm(transcript) ==
    /\ appActiveTab = "vishing"
    /\ UNCHANGED notVi
    /\ viLoadingTranscription
    /\ IF transcript # Null /\ Val(transcript) # <<>>
       THEN /\ viForm' = [ViFormDefault EXCEPT !.callScript = Val(transcript)]
            /\ viToast' = "Transcription complete! Ready to analyze."
            /\ viSelectedFile' = Null
       ELSE /\ viToast' = "No transcript returned from server"
            /\ UNCHANGED <<viForm, viSelectedFile>>
    /\ viLoadingTranscription' = FALSE
    /\ UNCHANGED <<viResult, viLoading, viRequest, viHist>>

\* handleTranscribe after the await, the request answered
ViTranscribeOk(transcript) ==
    /\ appActiveTab = "vishing"
    /\ UNCHANGED notVi
    /\ viLoadingTranscription
    /\ IF transcript # Null /\ Val(transcript) # <<>>
       THEN /\ viForm' = [viForm EXCEPT !.callScript = Val(transcript)]
            /\ viToast' = "Transcription complete! Ready to analyze."
            /\ viSelectedFile' = Null
       ELSE /\ viToast' = "No transcript returned from server"
            /\ UNCHANGED <<viForm, viSelectedFile>>
    /\ viLoadingTranscription' = FALSE
    /\ UNCHANGED <<viResult, viLoading, viRequest, viHist>>

\* handleTranscribe after the await, the request failed
ViTranscribeFail(detail) ==
    /\ appActiveTab = "vishing"
    /\ UNCHANGED notVi
    /\ viLoadingTranscription
    /\ viToast' = IF detail # Null THEN Val(detail) ELSE "Transcription failed"
    /\ viLoadingTranscription' = FALSE
    /\ UNCHANGED <<viForm, viResult, viLoading, viRequest, viHist, viSelectedFile>>

----------------------------------------------------------------------------
(* PasswordSimulator.jsx                                                   *)

\* at most this many progress intervals alive at a time
MaxTimers == 2

\* at most this many 500 ms timeouts pending at a time
MaxTimeouts == 1

\* the defaults of the uncontrolled crack-hash inputs (defaultValue="4")
CrackDomDefault ==
    [hash |-> <<>>, hashType |-> "MD5", attackType |-> "dictionary",
     maxAttempts |-> Null, maxLength |-> Num(4, 0)]

\* useState({password: '', hashType: 'MD5', attackType: 'dictionary', ...})
FormDataDefault ==
    [password |-> <<>>, hashType |-> "MD5", attackType |-> "dictionary",
     userMetadata |-> [name |-> <<>>, dob |-> <<>>],
     maxAttempts |-> Null, maxLength |-> 4]

\* no progress interval is alive
NoTimers == [analyze |-> 0, crack |-> 0]

PwInit ==
    /\ pwForm = FormDataDefault
    /\ pwShowAdvanced = FALSE
    /\ pwActiveTab = "analyze"
    /\ pwCrackDom = CrackDomDefault
    /\ pwResult = Null
    /\ pwLoading = FALSE
    /\ pwProgress = Null
    /\ pwRequest = Null
    /\ pwTimers = NoTimers
    /\ pwTimeouts = 0
    /\ pwHist = HistMounted
    /\ pwStats = HistMounted
    /\ pwToast = "none"
    /\ pwShowMetadata = FALSE
    /\ pwAnswered = Null
    /\ pwExported = Null

\* onChange of the password field
PwSetPassword(s) ==
    /\ appActiveTab = "password"
    /\ UNCHANGED notPw
    /\ UNCHANGED <<pwShowMetadata, pwAnswered, pwExported>>
    /\ pwActiveTab = "analyze"
    /\ pwForm' = [pwForm EXCEPT !.password = s]
    /\ UNCHANGED <<pwShowAdvanced, pwActiveTab, pwCrackDom, pwResult, pwLoading,
                   pwProgress, pwRequest, pwTimers, pwTimeouts, pwHist, pwStats,
                   pwToast>>

\* onChange of the Attack Type select
PwSetAttackType(t) ==
    /\ appActiveTab = "password"
    /\ UNCHANGED notPw
    /\ UNCHANGED <<pwShowMetadata, pwAnswered, pwExported>>
    /\ pwActiveTab = "analyze"
    /\ pwForm' = [pwForm EXCEPT !.attackType = t]
    /\ UNCHANGED <<pwShowAdvanced, pwActiveTab, pwCrackDom, pwResult, pwLoading,
                   pwProgress, pwRequest, pwTimers, pwTimeouts, pwHist, pwStats,
                   pwToast>>

\* the options of the two Hash Algorithm selects
HashTypes == {"MD5", "SHA256", "bcrypt"}

\* onChange of the Hash Algorithm select of the analyze form
PwSetHashType(t) ==
    /\ appActiveTab = "password"
    /\ UNCHANGED notPw
    /\ UNCHANGED <<pwShowMetadata, pwAnswered, pwExported>>
    /\ pwActiveTab = "analyze"
    /\ pwForm' = [pwForm EXCEPT !.hashType = t]
    /\ UNCHANGED <<pwShowAdvanced, pwActiveTab, pwCrackDom, pwResult, pwLoading,
                   pwProgress, pwRequest, pwTimers, pwTimeouts, pwHist, pwStats,
                   pwToast>>

\* the Show / Hide User Metadata button
PwToggleMetadata ==
    /\ appActiveTab = "password"
    /\ UNCHANGED notPw
    /\ UNCHANGED <<pwAnswered, pwExported>>
    /\ pwActiveTab = "analyze"
    /\ pwShowMetadata' = ~pwShowMetadata
    /\ UNCHANGED <<pwForm, pwShowAdvanced, pwActiveTab, pwCrackDom, pwResult,
                   pwLoading, pwProgress, pwRequest, pwTimers, pwTimeouts, pwHist,
                   pwStats, pwToast>>

\* onChange of Name or Date of Birth, rendered with the metadata panel
PwSetMetadata(field, s) ==
    /\ appActiveTab = "password"
    /\ UNCHANGED notPw
    /\ UNCHANGED <<pwShowMetadata, pwAnswered, pwExported>>
    /\ pwActiveTab = "analyze"
    /\ pwShowMetadata
    /\ pwForm' = [pwForm EXCEPT !.userMetadata[field] = s]
    /\ UNCHANGED <<pwShowAdvanced, pwActiveTab, pwCrackDom, pwResult, pwLoading,
                   pwProgress, pwRequest, pwTimers, pwTimeouts, pwHist, pwStats,
                   pwToast>>

\* the Show / Hide Advanced Options button
PwToggleAdvanced ==
    /\ appActiveTab = "password"
    /\ UNCHANGED notPw
    /\ UNCHANGED <<pwShowMetadata, pwAnswered, pwExported>>
    /\ pwActiveTab = "analyze"
    /\ pwShowAdvanced' = ~pwShowAdvanced
    /\ UNCHANGED <<pwForm, pwActiveTab, pwCrackDom, pwResult, pwLoading,
                   pwProgress, pwRequest, pwTimers, pwTimeouts, pwHist, pwStats,
                   pwToast>>

\* onChange of Max Attempts, rendered with the advanced panel
PwSetMaxAttempts(text) ==
    /\ appActiveTab = "password"
    /\ UNCHANGED notPw
    /\ UNCHANGED <<pwShowMetadata, pwAnswered, pwExported>>
    /\ pwActiveTab = "analyze"
    /\ pwShowAdvanced
    /\ pwForm' = [pwForm EXCEPT !.maxAttempts = text]
    /\ UNCHANGED <<pwShowAdvanced, pwActiveTab, pwCrackDom, pwResult, pwLoading,
                   pwProgress, pwRequest, pwTimers, pwTimeouts, pwHist, pwStats,
                   pwToast>>

\* the value onChange of Max Length stores
MaxLengthTyped(text) == OrElse(ParseInt(text), 4)

\* onChange of Max Length, rendered with the advanced panel for brute force
PwSetMaxLength(text) ==
    /\ appActiveTab = "password"
    /\ UNCHANGED notPw
    /\ UNCHANGED <<pwShowMetadata, pwAnswered, pwExported>>
    /\ pwActiveTab = "analyze"
    /\ pwShowAdvanced
    /\ pwForm.attackType = "brute_force"
    /\ pwForm' = [pwForm EXCEPT !.maxLength = MaxLengthTyped(text)]
    /\ UNCHANGED <<pwShowAdvanced, pwActiveTab, pwCrackDom, pwResult, pwLoading,
                   pwProgress, pwRequest, pwTimers, pwTimeouts, pwHist, pwStats,
                   pwToast>>

\* the two tab buttons; each form is rendered for its tab only, so the
\* uncontrolled crack-hash inputs start from their defaults again
PwSetActiveTab(tab) ==
    /\ appActiveTab = "password"
    /\ UNCHANGED notPw
    /\ UNCHANGED <<pwShowMetadata, pwAnswered, pwExported>>
    /\ pwActiveTab' = tab
    /\ pwCrackDom' = IF tab = pwActiveTab THEN pwCrackDom ELSE CrackDomDefault
    /\ UNCHANGED <<pwForm, pwShowAdvanced, pwResult, pwLoading,
                   pwProgress, pwRequest, pwTimers, pwTimeouts, pwHist, pwStats,
                   pwToast>>

\* typing into an input of the crack-hash form
PwCrackType(field, v) ==
    /\ appActiveTab = "password"
    /\ UNCHANGED notPw
    /\ UNCHANGED <<pwShowMetadata, pwAnswered, pwExported>>
    /\ pwActiveTab = "crack"
    /\ pwCrackDom' = [pwCrackDom EXCEPT ![field] = v]
    /\ UNCHANGED <<pwForm, pwShowAdvanced, pwActiveTab, pwResult, pwLoading,
                   pwProgress, pwRequest, pwTimers, pwTimeouts, pwHist, pwStats,
                   pwToast>>

\* constraint validation of a number input with the default step of 1:
\* empty, or a whole number in min..max
NumberValid(text, lo, hi) ==
    IF text = Null THEN TRUE
    ELSE /\ Val(text).frac = 0
         /\ lo <= Val(text).whole
         /\ Val(text).whole <= hi

\* a number input with min only
NumberAtLeast(text, lo) ==
    IF text = Null THEN TRUE
    ELSE /\ Val(text).frac = 0
         /\ lo <= Val(text).whole

\* the browser lets the analyze form submit: the button is enabled, the
\* `required` password is not empty and every rendered number input is valid
PwCanSubmit ==
    /\ pwActiveTab = "analyze"
    /\ ~pwLoading
    /\ pwForm.password # <<>>
    /\ pwShowAdvanced => NumberAtLeast(pwForm.maxAttempts, 1)
    /\ (pwShowAdvanced /\ pwForm.attackType = "brute_force")
          => NumberValid(Num(pwForm.maxLength, 0), 1, 6)

\* the crack-hash form with a submit button that is never disabled
PwCanCrackWhileLoading ==
    /\ pwActiveTab = "crack"
    /\ pwCrackDom.hash # <<>>
    /\ NumberAtLeast(pwCrackDom.maxAttempts, 1)
    /\ NumberValid(pwCrackDom.maxLength, 1, 6)

\* the browser lets the crack-hash form submit
PwCanCrack ==
    /\ pwActiveTab = "crack"
    /\ ~pwLoading
    /\ pwCrackDom.hash # <<>>
    /\ NumberAtLeast(pwCrackDom.maxAttempts, 1)
    /\ NumberValid(pwCrackDom.maxLength, 1, 6)

\* the body of the analyze request with user_metadata chosen by the two
\* fields alone
AnalyzeRequestPanelIgnored(form) ==
    [kind |-> "analyze",
     password |-> Some(form.password),
     hash_value |-> Null,
     hash_type |-> form.hashType,
     attack_type |-> form.attackType,
     user_metadata |-> IF \/ form.userMetadata.name # <<>>
                          \/ form.userMetadata.dob # <<>>
                       THEN Some(form.userMetadata) ELSE Null,
     max_attempts |-> IF form.maxAttempts # Null
                      THEN ParseInt(form.maxAttempts) ELSE Null,
     max_length |-> form.maxLength]

\* the body of passwordAPI.analyze(...)
AnalyzeRequest(form) ==
    [kind |-> "analyze",
     password |-> Some(form.password),
     hash_value |-> Null,
     hash_type |-> form.hashType,
     attack_type |-> form.attackType,
     user_metadata |-> IF /\ pwShowMetadata
                          /\ \/ form.userMetadata.name # <<>>
                             \/ form.userMetadata.dob # <<>>
                       THEN Some(form.userMetadata) ELSE Null,
     max_attempts |-> IF form.maxAttempts # Null
                      THEN ParseInt(form.maxAttempts) ELSE Null,
     max_length |-> form.maxLength]

\* the body of passwordAPI.crackHash(...)
CrackRequest(dom) ==
    [kind |-> "crack",
     password |-> Null,
     hash_value |-> Some(Trim(dom.hash)),
     hash_type |-> dom.hashType,
     attack_type |-> dom.attackType,
     user_metadata |-> Null,
     max_attempts |-> IF dom.maxAttempts # Null
                      THEN ParseInt(dom.maxAttempts) ELSE Null,
     max_length |-> IF dom.maxLength # Null
                    THEN Val(ParseInt(dom.maxLength)) ELSE 4]

TotalTimers == pwTimers.analyze + pwTimers.crack

\* the guard without its trim()
PwRejectsUntrimmed(form) == form.password = <<>>

\* handleSubmit's guard
PwRejects(form) == Blank(form.password)

\* the guard testing the text as typed
PwCrackRejectsUntrimmed(dom) == dom.hash = <<>>

\* handleHashCrack's guard
PwCrackRejects(dom) == Trim(dom.hash) = <<>>

\* handleSubmit up to the await
PwSubmit ==
    /\ appActiveTab = "password"
    /\ UNCHANGED notPw
    /\ UNCHANGED <<pwShowMetadata, pwExported>>
    /\ PwCanSubmit
    /\ IF PwRejects(pwForm)
       THEN /\ pwToast' = "Please enter a password"
            /\ UNCHANGED <<pwForm, pwShowAdvanced, pwActiveTab, pwCrackDom, pwResult,
                           pwLoading, pwProgress, pwRequest, pwTimers, pwTimeouts,
                           pwHist, pwStats, pwAnswered>>
       ELSE /\ TotalTimers < MaxTimers
            /\ pwLoading' = TRUE
            /\ pwResult' = Null
            /\ pwAnswered' = Null
            /\ pwProgress' = Some([current |-> 0, status |-> "Starting attack..."])
            /\ pwTimers' = [pwTimers EXCEPT !.analyze = @ + 1]
            /\ pwRequest' = Some(AnalyzeRequest(pwForm))
            /\ UNCHANGED <<pwForm, pwShowAdvanced, pwActiveTab, pwCrackDom,
                           pwTimeouts, pwHist, pwStats, pwToast>>

\* handleHashCrack up to the await
PwHashCrack ==
    /\ appActiveTab = "password"
    /\ UNCHANGED notPw
    /\ UNCHANGED <<pwShowMetadata, pwExported>>
    /\ PwCanCrack
    /\ IF PwCrackRejects(pwCrackDom)
       THEN /\ pwToast' = "Please enter a hash value"
            /\ UNCHANGED <<pwForm, pwShowAdvanced, pwActiveTab, pwCrackDom, pwResult,
                           pwLoading, pwProgress, pwRequest, pwTimers, pwTimeouts,
                           pwHist, pwStats, pwAnswered>>
       ELSE /\ TotalTimers < MaxTimers
            /\ pwLoading' = TRUE
            /\ pwResult' = Null
            /\ pwAnswered' = Null
            /\ pwProgress' = Some([current |-> 0,
                                   status |-> "Starting hash cracking..."])
            /\ pwTimers' = [pwTimers EXCEPT !.crack = @ + 1]
            /\ pwRequest' = Some(CrackRequest(pwCrackDom))
            /\ UNCHANGED <<pwForm, pwShowAdvanced, pwActiveTab, pwCrackDom,
                           pwTimeouts, pwHist, pwStats, pwToast>>

\* the 200 ms progress interval of a handler: up by Math.random() * 10,
\* never past 95
PwProgressTick(kind, inc) ==
    /\ appActiveTab = "password"
    /\ UNCHANGED notPw
    /\ UNCHANGED <<pwShowMetadata, pwAnswered, pwExported>>
    /\ pwTimers[kind] > 0
    /\ pwProgress' =
          IF pwProgress = Null THEN Null
          ELSE Some([current |-> Min(Val(pwProgress).current + inc, 95),
                     status |-> IF kind = "analyze" THEN "Testing passwords..."
                                ELSE "Cracking hash..."])
    /\ UNCHANGED <<pwForm, pwShowAdvanced, pwActiveTab, pwCrackDom, pwResult,
                   pwLoading, pwRequest, pwTimers, pwTimeouts, pwHist, pwStats,
                   pwToast>>

\* the success path without its loadHistory() and loadStats()
PwRequestOkNoReload(res) ==
    /\ appActiveTab = "password"
    /\ UNCHANGED notPw
    /\ UNCHANGED <<pwShowMetadata, pwExported>>
    /\ pwRequest # Null
    /\ pwTimeouts < MaxTimeouts
    /\ pwAnswered' = Some([kind |-> Val(pwRequest).kind,
                           hash_type |-> Val(pwRequest).hash_type])
    /\ pwTimers' = [pwTimers EXCEPT ![Val(pwRequest).kind] = @ - 1]
    /\ pwProgress' = Some([current |-> 100, status |-> "Complete!"])
    /\ pwResult' = Some(res)
    /\ pwToast' = IF Val(pwRequest).kind = "analyze"
                  THEN "Password analysis complete!" ELSE "Hash analysis complete!"
    /\ pwTimeouts' = pwTimeouts + 1
    /\ pwLoading' = FALSE
    /\ pwRequest' = Null
    /\ UNCHANGED <<pwForm, pwShowAdvanced, pwActiveTab, pwCrackDom, pwHist, pwStats>>

\* either handler after the await, the request answered
PwRequestOk(res) ==
    /\ appActiveTab = "password"
    /\ UNCHANGED notPw
    /\ UNCHANGED <<pwShowMetadata, pwExported>>
    /\ pwRequest # Null
    /\ pwTimeouts < MaxTimeouts
    /\ pwAnswered' = Some([kind |-> Val(pwRequest).kind,
                           hash_type |-> Val(pwRequest).hash_type])
    /\ pwTimers' = [pwTimers EXCEPT ![Val(pwRequest).kind] = @ - 1]
    /\ pwProgress' = Some([current |-> 100, status |-> "Complete!"])
    /\ pwResult' = Some(res)
    /\ pwToast' = IF Val(pwRequest).kind = "analyze"
                  THEN "Password analysis complete!" ELSE "Hash analysis complete!"
    /\ pwHist' = LoadHistory(pwHist)
    /\ pwStats' = LoadHistory(pwStats)
    /\ pwTimeouts' = pwTimeouts + 1
    /\ pwLoading' = FALSE
    /\ pwRequest' = Null
    /\ UNCHANGED <<pwForm, pwShowAdvanced, pwActiveTab, pwCrackDom>>

\* the failure path without its setAttackProgress(null)
PwRequestFailKeepsProgress(detail) ==
    /\ appActiveTab = "password"
    /\ UNCHANGED notPw
    /\ UNCHANGED <<pwShowMetadata, pwAnswered, pwExported>>
    /\ pwRequest # Null
    /\ pwToast' = IF detail # Null THEN Val(detail)
                  ELSE IF Val(pwRequest).kind = "analyze" THEN "Analysis failed"
                  ELSE "Hash cracking failed"
    /\ pwLoading' = FALSE
    /\ pwRequest' = Null
    /\ UNCHANGED <<pwForm, pwShowAdvanced, pwActiveTab, pwCrackDom, pwResult,
                   pwProgress, pwTimers, pwTimeouts, pwHist, pwStats>>

\* either handler after the await, the request failed: the catch block
\* cannot reach progressInterval, which stays alive
PwRequestFail(detail) ==
    /\ appActiveTab = "password"
    /\ UNCHANGED notPw
    /\ UNCHANGED <<pwShowMetadata, pwAnswered, pwExported>>
    /\ pwRequest # Null
    /\ pwProgress' = Null
    /\ pwToast' = IF detail # Null THEN Val(detail)
                  ELSE IF Val(pwRequest).kind = "analyze" THEN "Analysis failed"
                  ELSE "Hash cracking failed"
    /\ pwLoading' = FALSE
    /\ pwRequest' = Null
    /\ UNCHANGED <<pwForm, pwShowAdvanced, pwActiveTab, pwCrackDom, pwResult,
                   pwTimers, pwTimeouts, pwHist, pwStats>>

\* the 500 ms timeout of a successful run
PwTimeoutFire ==
    /\ appActiveTab = "password"
    /\ UNCHANGED notPw
    /\ UNCHANGED <<pwShowMetadata, pwAnswered, pwExported>>
    /\ pwTimeouts > 0
    /\ pwTimeouts' = pwTimeouts - 1
    /\ pwProgress' = Null
    /\ UNCHANGED <<pwForm, pwShowAdvanced, pwActiveTab, pwCrackDom, pwResult,
                   pwLoading, pwRequest, pwTimers, pwHist, pwStats, pwToast>>

\* exportResults, from the Export button of the Results Section (rendered
\* with a result): the file's hash_type is read from formData
PwExportResults ==
    /\ appActiveTab = "password"
    /\ UNCHANGED notPw
    /\ UNCHANGED <<pwShowMetadata, pwAnswered>>
    /\ pwResult # Null
    /\ pwExported' = Some([hash_type |-> pwForm.hashType,
                           result |-> Val(pwResult)])
    /\ pwToast' = "Results exported!"
    /\ UNCHANGED <<pwForm, pwShowAdvanced, pwActiveTab, pwCrackDom, pwResult,
                   pwLoading, pwProgress, pwRequest, pwTimers, pwTimeouts, pwHist,
                   pwStats>>

\* the 10 s interval (history and stats) and the Refresh button (history)
PwReload(trigger) ==
    /\ IF trigger = "timer" THEN refreshIntervals["password"] # Null
       ELSE appActiveTab = "password" /\ pwHist.shown # "none"
    /\ UNCHANGED notPw
    /\ UNCHANGED <<pwShowMetadata, pwAnswered, pwExported>>
    /\ pwHist' = LoadHistory(pwHist)
    /\ pwStats' = IF trigger = "timer" THEN LoadHistory(pwStats) ELSE pwStats
    /\ UNCHANGED <<pwForm, pwShowAdvanced, pwActiveTab, pwCrackDom, pwResult,
                   pwLoading, pwProgress, pwRequest, pwTimers, pwTimeouts, pwToast>>

\* loadHistory after its await
PwHistoryDone(which, ok) ==
    /\ appActiveTab = "password"
    /\ UNCHANGED notPw
    /\ UNCHANGED <<pwShowMetadata, pwAnswered, pwExported>>
    /\ HistPending(pwHist, which)
    /\ pwHist' = HistDone(pwHist, which, ok)
    /\ UNCHANGED <<pwForm, pwShowAdvanced, pwActiveTab, pwCrackDom, pwResult,
                   pwLoading, pwProgress, pwRequest, pwTimers, pwTimeouts, pwStats,
                   pwToast>>

\* loadStats after its await
PwStatsDone(which, ok) ==
    /\ appActiveTab = "password"
    /\ UNCHANGED notPw
    /\ UNCHANGED <<pwShowMetadata, pwAnswered, pwExported>>
    /\ HistPending(pwStats, which)
    /\ pwStats' = HistDone(pwStats, which, ok)
    /\ UNCHANGED <<pwForm, pwShowAdvanced, pwActiveTab, pwCrackDom, pwResult,
                   pwLoading, pwProgress, pwRequest, pwTimers, pwTimeouts, pwHist,
                   pwToast>>

----------------------------------------------------------------------------
(* The password back end, from the design document (its code is not among  *)
(* the sources): HashSimulator 4.1, GuessSource 4.2, PasswordAttack-       *)
(* Simulator 4.3, and the Result Status block of PasswordSimulator.jsx     *)
(* that renders its result.                                                *)

\* safety ceiling on the attempts of one run
AttemptCeiling == 1000

\* safety ceiling on the length of a brute-force candidate
LengthCeiling == 6

\* the selected charset, cut down to three characters
Charset == <<"a", "b", "c">>

\* the fixed wordlist, in insertion order
Wordlist == << <<"a", "b">>, <<"c", "a">> >>

\* digest(secret, algorithm): deterministic, and free of collisions over
\* the short strings a run tries
Digest(secret, algorithm) == <<algorithm>> \o secret

\* verify(candidate, targetHash, algorithm)
Verify(candidate, targetHash, algorithm) == Digest(candidate, algorithm) = targetHash

\* a target hash of the declared algorithm
WellFormedHash(h, algorithm) == h # <<>> /\ Head(h) = algorithm

\* the clamped attempt bound: min(maxAttempts, 1000), 1000 when none is given
ClampAttempts(maxAttempts) ==
    IF maxAttempts = Null THEN AttemptCeiling
    ELSE Min(Val(maxAttempts), AttemptCeiling)

\* the clamped length bound
ClampLength(maxLength) == Min(maxLength, LengthCeiling)

\* the leetspeak variant of a word: a -> 4
Leet(w) == [i \in 1..Len(w) |-> IF w[i] = "a" THEN "4" ELSE w[i]]

\* DICTIONARY: every word, then its variant when it differs
RECURSIVE WithVariants(_)
WithVariants(words) ==
    IF words = <<>> THEN <<>>
    ELSE LET w == Head(words)
         IN  (IF Leet(w) = w THEN <<w>> ELSE <<w, Leet(w)>>)
                 \o WithVariants(Tail(words))

DictionaryCandidates == WithVariants(Wordlist)

\* BRUTE_FORCE: the i-th string over the charset, length 1 first, each
\* length in lexicographic order
RECURSIVE BruteString(_)
BruteString(i) ==
    IF i = 0 THEN <<>>
    ELSE BruteString((i - 1) \div Len(Charset))
             \o <<Charset[((i - 1) % Len(Charset)) + 1]>>

\* how many strings of length 1..maxLen there are
RECURSIVE BruteCount(_)
BruteCount(maxLen) ==
    IF maxLen <= 0 THEN 0 ELSE Len(Charset) ^ maxLen + BruteCount(maxLen - 1)

\* does the strategy start with the dictionary (AI_GUIDED and HYBRID fall
\* back to it when the request carries no metadata)
UsesDictionary(strategy) == strategy # "brute_force"

\* does the strategy enumerate the charset (HYBRID does in its tail)
UsesBruteForce(strategy) == strategy \in {"brute_force", "hybrid"}

\* the length of the candidate sequence of a request
SourceLen(req) ==
    (IF UsesDictionary(req.attack_type) THEN Len(DictionaryCandidates) ELSE 0)
    + (IF UsesBruteForce(req.attack_type)
       THEN BruteCount(ClampLength(req.max_length)) ELSE 0)

\* the i-th candidate of the sequence, 1 <= i <= SourceLen(req)
Candidate(req, i) ==
    IF UsesDictionary(req.attack_type)
    THEN (IF i <= Len(DictionaryCandidates) THEN DictionaryCandidates[i]
          ELSE BruteString(i - Len(DictionaryCandidates)))
    ELSE BruteString(i)

\* the target hash a request resolves to
TargetHash(req) ==
    IF req.password # Null THEN Digest(Val(req.password), req.hash_type)
    ELSE Val(req.hash_value)

\* InvalidInput: both or neither of secret and hash, an empty one, or a
\* hash that is malformed for the declared algorithm
InvalidInput(req) ==
    IF (req.password = Null) = (req.hash_value = Null) THEN TRUE
    ELSE IF req.password # Null THEN Val(req.password) = <<>>
    ELSE ~WellFormedHash(Val(req.hash_value), req.hash_type)

\* the request is validated before any simulation starts
AtkValidate ==
    /\ UNCHANGED notAtk
    /\ atkPhase = "received"
    /\ atkPhase' = IF InvalidInput(atkRequest) THEN "rejected" ELSE "running"
    /\ UNCHANGED <<atkRequest, atkAttempts, atkCracked, atkView>>

\* the run is over: a match, the clamped bound reached, or the source
\* exhausted
AtkStops ==
    \/ atkCracked # Null
    \/ atkAttempts >= ClampAttempts(atkRequest.max_attempts)
    \/ atkAttempts >= SourceLen(atkRequest)

\* one iteration of run: the next candidate is verified
AtkAttempt ==
    /\ UNCHANGED notAtk
    /\ atkPhase = "running"
    /\ ~AtkStops
    /\ atkAttempts' = atkAttempts + 1
    /\ atkCracked' =
          LET c == Candidate(atkRequest, atkAttempts + 1)
          IN  IF Verify(c, TargetHash(atkRequest), atkRequest.hash_type)
              THEN Some(c) ELSE Null
    /\ UNCHANGED <<atkRequest, atkPhase, atkView>>

\* run returns its AttackResult
AtkFinish ==
    /\ UNCHANGED notAtk
    /\ atkPhase = "running"
    /\ AtkStops
    /\ atkPhase' = "done"
    /\ UNCHANGED <<atkRequest, atkAttempts, atkCracked, atkView>>

\* JavaScript truthiness of result.cracked: null and '' are falsy
Truthy(cracked) == cracked # Null /\ Val(cracked) # <<>>

\* Result Status with the branches of its conditional swapped
ResultStatusSwapped(cracked) ==
    IF Truthy(cracked) THEN "Password Not Cracked"
    ELSE "Password Cracked Successfully!"

\* Result Status of the password view
ResultStatus(cracked) ==
    IF Truthy(cracked) THEN "Password Cracked Successfully!"
    ELSE "Password Not Cracked"

\* setResult(response.data): the view renders the result
AtkRender ==
    /\ UNCHANGED notAtk
    /\ atkPhase = "done"
    /\ atkPhase' = "rendered"
    /\ atkView' = ResultStatus(atkCracked)
    /\ UNCHANGED <<atkRequest, atkAttempts, atkCracked>>

AtkNext ==
    \/ AtkValidate
    \/ AtkAttempt
    \/ AtkFinish
    \/ AtkRender

\* no request is being served
AtkIdle ==
    /\ atkRequest = Null
    /\ atkPhase = "idle"
    /\ atkAttempts = 0
    /\ atkCracked = Null
    /\ atkView = "none"

----------------------------------------------------------------------------
(* Dashboard.jsx                                                           *)

\* `obj?.f` : undefined when obj is null
Field(obj, f) == IF obj = Null THEN Null ELSE Val(obj)[f]

\* `x ?? d`
Coalesce(x, d) == IF x = Null THEN d ELSE Val(x)

\* RiskScorer / PatternDetector of the design document: every score the back
\* end produces is clamped to [0, 100]
ClampScore(raw) == Max(0, Min(MaxScore, raw))

\* the raw weighted sums behind the averages of the statistics
RawScores == {-20, 30, 130}

\* response.data of passwordAPI.getStats()
PasswordStatsSamples ==
    {[average_strength |-> Some(ClampScore(r)), average_risk_score |-> Null] :
        r \in RawScores}
    \cup {[average_strength |-> Null, average_risk_score |-> Some(ClampScore(r))] :
            r \in RawScores}
    \cup {[average_strength |-> Null, average_risk_score |-> Null]}

\* response.data of phishingAPI.getStats()
PhishingStatsSamples ==
    {[average_risk |-> Some(ClampScore(130)), average_phishing_score |-> Null],
     [average_risk |-> Null, average_phishing_score |-> Some(ClampScore(30))]}

\* response.data of vishingAPI.getStats()
VishingStatsSamples ==
    {[average_risk |-> Null, average_vishing_score |-> Some(ClampScore(130))],
     [average_risk |-> Null, average_vishing_score |-> Null]}

\* the three answers of one loadAllStats call: every answer of the password
\* statistics beside phishing and vishing statistics that carry a score,
\* and the empty statistics of the three beside each other
DashStatsSamples ==
    {t \in [pwd : PasswordStatsSamples, phish : PhishingStatsSamples,
            vish : VishingStatsSamples] :
        IF t.phish.average_risk # Null
        THEN t.vish.average_vishing_score # Null
        ELSE /\ t.vish.average_vishing_score = Null
             /\ t.pwd.average_strength = Null
             /\ t.pwd.average_risk_score = Null}

\* at most this many loadAllStats calls at their await at a time
MaxDashCalls == 2

\* the three requests of one Promise.all, none answered yet
AllPending == {"password", "phishing", "vishing"}

\* a loadAllStats call at its await: what started it (the mount effect, the
\* interval or the Refresh button) and the requests not answered yet
DashCall(trigger) == [trigger |-> trigger, pending |-> AllPending]

\* useState(null) x 3, useState(true), and loadAllStats() of the mount effect
DashInit ==
    /\ dashPasswordStats = Null
    /\ dashPhishingStats = Null
    /\ dashVishingStats = Null
    /\ dashLoading = TRUE
    /\ dashCalls = <<DashCall("mount")>>
    /\ dashRejected = Null
    /\ dashToast = "none"

\* the sequence without its i-th element
RemoveAt(seq, i) == SubSeq(seq, 1, i - 1) \o SubSeq(seq, i + 1, Len(seq))

\* loadAllStats up to the await: the 30 s interval, or the Refresh button,
\* which is rendered only when the spinner is not
DashLoadAllStats(trigger) ==
    /\ IF trigger = "timer" THEN refreshIntervals["dashboard"] # Null
       ELSE appActiveTab = "dashboard" /\ ~dashLoading
    /\ UNCHANGED notDash
    /\ Len(dashCalls) < MaxDashCalls
    /\ dashLoading' = TRUE
    /\ dashCalls' = Append(dashCalls, DashCall(trigger))
    /\ UNCHANGED <<dashPasswordStats, dashPhishingStats, dashVishingStats,
                   dashRejected, dashToast>>

\* one request of the i-th call is answered; Promise.all resolves with the
\* last of the three, and loadAllStats goes on after its await
DashStatsOk(i, which, pwd, phish, vish) ==
    /\ appActiveTab = "dashboard"
    /\ UNCHANGED notDash
    /\ i \in 1..Len(dashCalls)
    /\ which \in dashCalls[i].pending
    /\ IF dashCalls[i].pending = {which}
       THEN /\ dashPasswordStats' = Some(pwd)
            /\ dashPhishingStats' = Some(phish)
            /\ dashVishingStats' = Some(vish)
            /\ dashLoading' = FALSE
            /\ dashCalls' = RemoveAt(dashCalls, i)
            /\ UNCHANGED <<dashRejected, dashToast>>
       ELSE /\ dashCalls' = [dashCalls EXCEPT ![i].pending = @ \ {which}]
            /\ UNCHANGED <<dashPasswordStats, dashPhishingStats, dashVishingStats,
                           dashLoading, dashRejected, dashToast>>

\* one request of the i-th call fails: Promise.all rejects at once, catch
\* and finally run, the other answers of the call are dropped
DashStatsFail(i, which) ==
    /\ appActiveTab = "dashboard"
    /\ UNCHANGED notDash
    /\ i \in 1..Len(dashCalls)
    /\ which \in dashCalls[i].pending
    /\ dashToast' = "Failed to load dashboard statistics"
    /\ dashLoading' = FALSE
    /\ dashCalls' = RemoveAt(dashCalls, i)
    /\ dashRejected' = Some(dashCalls[i].trigger)
    /\ UNCHANGED <<dashPasswordStats, dashPhishingStats, dashVishingStats>>

\* the page below the spinner is rendered
DashShown == appActiveTab = "dashboard" /\ ~dashLoading

\* passwordStrength falling back on the average risk itself
PasswordStrengthUninverted ==
    Coalesce(Field(dashPasswordStats, "average_strength"),
             Max(0, Coalesce(Field(dashPasswordStats, "average_risk_score"), 0)))

\* const passwordStrength
PasswordStrength ==
    Coalesce(Field(dashPasswordStats, "average_strength"),
             Max(0, 100 - Coalesce(Field(dashPasswordStats, "average_risk_score"), 0)))

\* const phishingRisk
PhishingRisk ==
    Coalesce(Field(dashPhishingStats, "average_risk"),
             Coalesce(Field(dashPhishingStats, "average_phishing_score"), 0))

\* const vishingRisk
VishingRisk ==
    Coalesce(Field(dashVishingStats, "average_risk"),
             Coalesce(Field(dashVishingStats, "average_vishing_score"), 0))

----------------------------------------------------------------------------
(* App.jsx and Navigation.jsx                                              *)

\* the ids of Navigation's tabs
Tabs == {"dashboard", "password", "phishing", "vishing", "behavior"}

\* what App renders below the navigation for a value of activeTab
AppRendered(tab) ==
    (IF tab = "dashboard" THEN {"Dashboard"} ELSE {})
    \cup (IF tab = "password" THEN {"PasswordSimulator"} ELSE {})
    \cup (IF tab = "phishing" THEN {"PhishingSimulator"} ELSE {})
    \cup (IF tab = "vishing" THEN {"VishingSimulator"} ELSE {})

\* the tabs App renders a view for
Views == {tab \in Tabs : AppRendered(tab) # {}}

\* the period, in milliseconds, of the dashboard's setInterval(loadAllStats, ...)
DashIntervalMs == 30000

\* the periods of the setInterval of the three simulators
PwIntervalMs == 10000
PhIntervalMs == 10000
ViIntervalMs == 10000

\* the mount effect of a view: setInterval(..., period)
MountEffect(intervals, view) ==
    IF view \notin Views THEN intervals
    ELSE [intervals EXCEPT ![view] =
             Some(CASE view = "dashboard" -> DashIntervalMs
                    [] view = "password" -> PwIntervalMs
                    [] view = "phishing" -> PhIntervalMs
                    [] view = "vishing" -> ViIntervalMs)]

\* an effect that returns no cleanup
EffectCleanupNone(intervals, view) == intervals

\* the cleanup the effect returns: () => clearInterval(interval)
EffectCleanup(intervals, view) ==
    IF view \notin Views THEN intervals
    ELSE [intervals EXCEPT ![view] = Null]

\* useState('dashboard'); the dashboard is rendered and its effect has run
AppInit ==
    /\ appActiveTab = "dashboard"
    /\ refreshIntervals = MountEffect([v \in Views |-> Null], "dashboard")

\* a tab button: the view on display is unmounted with its state, and the
\* view of the tab, when App renders one for it, is mounted afresh.  A view
\* that is not mounted is kept in the state it is mounted with.
AppSetActiveTab(tab) ==
    /\ tab # appActiveTab
    /\ appActiveTab' = tab
    /\ refreshIntervals' =
          MountEffect(EffectCleanup(refreshIntervals, appActiveTab), tab)
    /\ dashPasswordStats' = Null
    /\ dashPhishingStats' = Null
    /\ dashVishingStats' = Null
    /\ dashLoading' = TRUE
    /\ dashCalls' = <<DashCall("mount")>>
    /\ dashRejected' = Null
    /\ dashToast' = "none"
    /\ pwForm' = FormDataDefault
    /\ pwShowAdvanced' = FALSE
    /\ pwActiveTab' = "analyze"
    /\ pwCrackDom' = CrackDomDefault
    /\ pwResult' = Null
    /\ pwLoading' = FALSE
    /\ pwProgress' = Null
    /\ pwRequest' = Null
    /\ pwTimers' = NoTimers
    /\ pwTimeouts' = 0
    /\ pwHist' = HistMounted
    /\ pwStats' = HistMounted
    /\ pwToast' = "none"
    /\ pwShowMetadata' = FALSE
    /\ pwAnswered' = Null
    /\ pwExported' = Null
    /\ phForm' = PhFormDefault
    /\ phResult' = Null
    /\ phLoading' = FALSE
    /\ phRequest' = Null
    /\ phHist' = HistMounted
    /\ phToast' = "none"
    /\ viForm' = ViFormDefault
    /\ viResult' = Null
    /\ viLoading' = FALSE
    /\ viRequest' = Null
    /\ viHist' = HistMounted
    /\ viToast' = "none"
    /\ viSelectedFile' = Null
    /\ viLoadingTranscription' = FALSE
    /\ UNCHANGED <<atkVars, riskVars>>

----------------------------------------------------------------------------
(* The risk level each view prints for a score                             *)

RiskIdle ==
    /\ riskScore = 0
    /\ riskView = "none"
    /\ riskLabel = ""
    /\ riskBadge = ""
    /\ riskColor = ""

\* PasswordSimulator.jsx, Results Section: getRiskLabel(result.overall_risk.overall_risk)
RenderPasswordRisk ==
    /\ UNCHANGED notRisk
    /\ riskView' = "password"
    /\ riskLabel' = PwGetRiskLabel(riskScore)
    /\ riskBadge' = PwGetRiskBadge(riskScore)
    /\ riskColor' = PwGetRiskColor(riskScore)
    /\ UNCHANGED riskScore

\* PhishingSimulator.jsx, Results Section
RenderPhishingRisk ==
    /\ UNCHANGED notRisk
    /\ riskView' = "phishing"
    /\ riskLabel' = PhGetRiskLabel(riskScore)
    /\ riskBadge' = PhGetRiskBadge(riskScore)
    /\ riskColor' = PhGetRiskColor(riskScore)
    /\ UNCHANGED riskScore

\* VishingSimulator.jsx, Results Section
RenderVishingRisk ==
    /\ UNCHANGED notRisk
    /\ riskView' = "vishing"
    /\ riskLabel' = ViGetRiskLabel(riskScore)
    /\ riskBadge' = ViGetRiskBadge(riskScore)
    /\ riskColor' = ViGetRiskColor(riskScore)
    /\ UNCHANGED riskScore

\* UserBehaviorAnalysis.jsx, Results Section, for a result whose
\* risk_profile.risk_level is the level: the badge prints `${level} Risk`
RenderBehaviorRisk(level) ==
    /\ UNCHANGED notRisk
    /\ riskView' = "behavior"
    /\ riskLabel' = level
    /\ riskBadge' = BhRiskBadge(level)
    /\ riskColor' = BhRiskPanel(level)
    /\ UNCHANGED riskScore

RiskNext ==
    \/ RenderPasswordRisk
    \/ RenderPhishingRisk
    \/ RenderVishingRisk
    \/ \E level \in RiskLevels : RenderBehaviorRisk(level)

----------------------------------------------------------------------------
(* Specifications                                                          *)

\* the front end once App is constructed: the dashboard is mounted and its
\* first loadAllStats is at its await
FrontInit == AppInit /\ DashInit /\ PwInit /\ PhInit /\ ViInit

Init == FrontInit /\ AtkIdle /\ RiskIdle

\* ---- the risk labels of the three views, for every score
InitRisk ==
    /\ FrontInit /\ AtkIdle
    /\ riskScore \in 0..MaxScore
    /\ riskView = "none"
    /\ riskLabel = ""
    /\ riskBadge = ""
    /\ riskColor = ""

SpecRisk == InitRisk /\ [][RiskNext]_vars

\* ---- the dashboard
NextDash ==
    \/ \E tab \in {"dashboard", "password"} : AppSetActiveTab(tab)
    \/ \E t \in {"timer", "refresh"} : DashLoadAllStats(t)
    \/ \E i \in 1..MaxDashCalls, w \in AllPending, t \in DashStatsSamples :
          DashStatsOk(i, w, t.pwd, t.phish, t.vish)
    \/ \E i \in 1..MaxDashCalls, w \in AllPending : DashStatsFail(i, w)

SpecDash == Init /\ [][NextDash]_vars

\* ---- the phishing view with its history
NextPh ==
    \/ \E tab \in {"dashboard", "phishing"} : AppSetActiveTab(tab)
    \/ \E f \in {"emailSubject", "emailBody", "senderEmail"}, s \in TextInputs :
          PhSetField(f, s)
    \/ PhLoadSample
    \/ PhSubmit
    \/ \E score \in SampleScores : PhAnalyzeOk(score)
    \/ \E d \in ErrorDetails : PhAnalyzeFail(d)
    \/ \E t \in {"timer", "refresh"} : PhReload(t)
    \/ \E w \in {"latest", "older"}, ok \in BOOLEAN : PhHistoryDone(w, ok)

SpecPh == Init /\ [][NextPh]_vars

\* ---- the vishing view with its history
NextVi ==
    \/ \E tab \in {"dashboard", "vishing"} : AppSetActiveTab(tab)
    \/ \E f \in {"callScript", "callerId"}, s \in TextInputs : ViSetField(f, s)
    \/ \E n \in DurationInputs : ViSetDuration(n)
    \/ ViLoadSample
    \/ ViSubmit
    \/ \E score \in SampleScores : ViAnalyzeOk(score)
    \/ \E d \in ErrorDetails : ViAnalyzeFail(d)
    \/ \E t \in {"timer", "refresh"} : ViReload(t)
    \/ \E w \in {"latest", "older"}, ok \in BOOLEAN : ViHistoryDone(w, ok)

SpecVi == Init /\ [][NextVi]_vars

\* ---- the four forms and the requests they send.  The timers, the
\* reloads and the failure of a password request write attackProgress,
\* history, stats and the toast only and are left to the other
\* specifications.
BlankInputs == {<<>>, <<" ">>, <<"a">>}

NextForms ==
    \/ \E tab \in Tabs : AppSetActiveTab(tab)
    \/ \E t \in BlankInputs : PwSetPassword(t)
    \/ \E t \in {"dictionary", "brute_force"} : PwSetAttackType(t)
    \/ PwToggleAdvanced
    \/ \E t \in {Null, Num(-5, 0)} : PwSetMaxAttempts(t)
    \/ \E t \in {Null, Num(9, 0)} : PwSetMaxLength(t)
    \/ \E tab \in {"analyze", "crack"} : PwSetActiveTab(tab)
    \/ \E t \in {<<>>, <<" ">>, <<" ", "h">>} : PwCrackType("hash", t)
    \/ \E t \in {Null, Num(6, 0), Num(9, 0)} : PwCrackType("maxLength", t)
    \/ PwSubmit
    \/ PwHashCrack
    \/ \E res \in ResultSamples : PwRequestOk(res)
    \/ PwTimeoutFire
    \/ \E f \in {"emailSubject", "emailBody"}, s \in BlankInputs : PhSetField(f, s)
    \/ PhSubmit
    \/ \E score \in SampleScores : PhAnalyzeOk(score)
    \/ \E d \in ErrorDetails : PhAnalyzeFail(d)
    \/ \E s \in BlankInputs : ViSetField("callScript", s)
    \/ \E n \in DurationInputs : ViSetDuration(n)
    \/ ViSubmit
    \/ \E score \in SampleScores : ViAnalyzeOk(score)
    \/ \E d \in ErrorDetails : ViAnalyzeFail(d)

SpecForms == Init /\ [][NextForms]_vars

\* ---- one analysis of the password view with its timers, and no bound on
\* the time the back end takes.  The browser fires every timer that is set;
\* nothing makes the back end answer.
NextPwRun ==
    \/ \E tab \in {"dashboard", "password"} : AppSetActiveTab(tab)
    \/ PwSetPassword(<<"a">>)
    \/ PwSubmit
    \/ \E inc \in {4, 9} : PwProgressTick("analyze", inc)
    \/ \E res \in ResultSamples : PwRequestOk(res)
    \/ \E d \in ErrorDetails : PwRequestFail(d)
    \/ PwTimeoutFire
    \/ PwReload("timer")
    \/ \E w \in {"latest", "older"}, ok \in BOOLEAN : PwHistoryDone(w, ok)
    \/ \E w \in {"latest", "older"}, ok \in BOOLEAN : PwStatsDone(w, ok)

\* a request that is bounded by a client timeout is bound to fail when
\* nothing answers it
PwTimersFair ==
    /\ WF_vars(\E inc \in {4, 9} : PwProgressTick("analyze", inc))
    /\ WF_vars(PwTimeoutFire)
    /\ WF_vars(PwReload("timer"))
    /\ ApiTimeout # Null => WF_vars(\E d \in ErrorDetails : PwRequestFail(d))

FairSpecPw == Init /\ [][NextPwRun]_vars /\ PwTimersFair

\* ---- the automatic and the manual reloads of the four views
NextRefresh ==
    \/ \E tab \in Tabs : AppSetActiveTab(tab)
    \/ \E t \in {"timer", "refresh"} : DashLoadAllStats(t)
    \/ \E i \in 1..MaxDashCalls, w \in AllPending, t \in DashStatsSamples :
          DashStatsOk(i, w, t.pwd, t.phish, t.vish)
    \/ \E i \in 1..MaxDashCalls, w \in AllPending : DashStatsFail(i, w)
    \/ \E t \in {"timer", "refresh"} : PwReload(t)
    \/ \E w \in {"latest", "older"}, ok \in BOOLEAN : PwHistoryDone(w, ok)
    \/ \E w \in {"latest", "older"}, ok \in BOOLEAN : PwStatsDone(w, ok)
    \/ \E t \in {"timer", "refresh"} : PhReload(t)
    \/ \E w \in {"latest", "older"}, ok \in BOOLEAN : PhHistoryDone(w, ok)
    \/ \E t \in {"timer", "refresh"} : ViReload(t)
    \/ \E w \in {"latest", "older"}, ok \in BOOLEAN : ViHistoryDone(w, ok)

SpecRefresh == Init /\ [][NextRefresh]_vars

\* ---- the requests of the three simulators to their end, answered or
\* failed, with the progress timers of the password view; the answers to
\* the history and statistics reloads are left to the other specifications
NextRuns ==
    \/ \E tab \in {"dashboard", "password", "phishing", "vishing"} :
          AppSetActiveTab(tab)
    \/ PwSetPassword(<<"a">>)
    \/ \E tab \in {"analyze", "crack"} : PwSetActiveTab(tab)
    \/ PwCrackType("hash", <<"h">>)
    \/ PwSubmit
    \/ PwHashCrack
    \/ \E k \in {"analyze", "crack"} : PwProgressTick(k, 9)
    \/ \E res \in ResultSamples : PwRequestOk(res)
    \/ \E d \in ErrorDetails : PwRequestFail(d)
    \/ PwTimeoutFire
    \/ PhLoadSample
    \/ PhSubmit
    \/ \E score \in SampleScores : PhAnalyzeOk(score)
    \/ \E d \in ErrorDetails : PhAnalyzeFail(d)
    \/ ViLoadSample
    \/ ViSubmit
    \/ \E score \in SampleScores : ViAnalyzeOk(score)
    \/ \E d \in ErrorDetails : ViAnalyzeFail(d)
    \/ \E f \in FileInputs : ViFileSelect(f)
    \/ ViTranscribe
    \/ ViTranscribeSend
    \/ \E t \in TranscriptSamples : ViTranscribeOk(t)
    \/ \E d \in ErrorDetails : ViTranscribeFail(d)

SpecRuns == Init /\ [][NextRuns]_vars

\* ---- the password view from the Hash Algorithm selects to the exported
\* file: both forms, their answers and the exports
NextExport ==
    \/ \E tab \in {"dashboard", "password"} : AppSetActiveTab(tab)
    \/ PwSetPassword(<<"a">>)
    \/ \E t \in HashTypes : PwSetHashType(t)
    \/ \E tab \in {"analyze", "crack"} : PwSetActiveTab(tab)
    \/ \E fv \in {<<"hash", <<"h">>>>, <<"hashType", "SHA256">>} :
          PwCrackType(fv[1], fv[2])
    \/ PwSubmit
    \/ PwHashCrack
    \/ \E res \in ResultSamples : PwRequestOk(res)
    \/ PwTimeoutFire
    \/ PwExportResults

SpecExport == Init /\ [][NextExport]_vars

\* ---- the user metadata of the password view, from the panel to the
\* requests of both forms
NextMetadata ==
    \/ \E tab \in {"dashboard", "password"} : AppSetActiveTab(tab)
    \/ PwSetPassword(<<"a">>)
    \/ PwToggleMetadata
    \/ \E f \in {"name", "dob"}, s \in {<<>>, <<"a">>} : PwSetMetadata(f, s)
    \/ \E tab \in {"analyze", "crack"} : PwSetActiveTab(tab)
    \/ \E fv \in {<<"hash", <<"h">>>>, <<"attackType", "ai_guided">>} :
          PwCrackType(fv[1], fv[2])
    \/ PwSubmit
    \/ PwHashCrack
    \/ \E res \in ResultSamples : PwRequestOk(res)
    \/ PwTimeoutFire

SpecMetadata == Init /\ [][NextMetadata]_vars

\* ---- the attack loop of the back end, for the requests the forms send
AttackForms ==
    [password : {<<"c", "a">>, <<"c", "c", "c">>, <<"z">>},
     hashType : {"MD5"},
     attackType : {"dictionary", "brute_force", "hybrid", "ai_guided"},
     userMetadata : {FormDataDefault.userMetadata},
     maxAttempts : {Null, Num(2, 0), Num(2000, 0), Num(-5, 0)},
     maxLength : {4, 9}]

AttackDoms ==
    [hash : {<<" ", "MD5", "b", "a">>, <<"MD5", "4", "b">>, <<"h">>},
     hashType : {"MD5"},
     attackType : {"dictionary", "brute_force"},
     maxAttempts : {Null},
     maxLength : {Null, Num(2, 0)}]

AttackRequests ==
    {AnalyzeRequest(f) : f \in AttackForms} \cup {CrackRequest(d) : d \in AttackDoms}

InitAttack ==
    /\ FrontInit /\ RiskIdle
    /\ atkRequest \in AttackRequests
    /\ atkPhase = "received"
    /\ atkAttempts = 0
    /\ atkCracked = Null
    /\ atkView = "none"

SpecAttack == InitAttack /\ [][AtkNext]_vars

----------------------------------------------------------------------------
(* Properties                                                              *)

\* the run of the back end has returned its result
AtkReturned == atkPhase \in {"done", "rendered"}

\* C1: the attempts an attack result reports never exceed the clamped
\* attempt bound min(maxAttempts, 1000), whatever the strategy and whatever
\* max_attempts the request carries (null included).
C1_AttemptsWithinBound ==
    AtkReturned => atkAttempts <= ClampAttempts(atkRequest.max_attempts)

\* C1, its case: a result for a request whose max_attempts is below zero
C1_NegativeBoundServed ==
    /\ AtkReturned
    /\ atkRequest.max_attempts # Null
    /\ Val(atkRequest.max_attempts) < 0

\* C2: the max_length of every analyze or crack-hash request is a whole
\* number from 1 to 6, whatever was typed into Max Length and whether or
\* not the advanced panel is shown when the form is submitted.
C2_MaxLengthInRange ==
    pwRequest # Null => Val(pwRequest).max_length \in 1..LengthCeiling

\* C2, its case: an analyze request sent with the advanced panel hidden
C2_HiddenPanelRequest ==
    /\ pwRequest # Null
    /\ Val(pwRequest).kind = "analyze"
    /\ ~pwShowAdvanced
    /\ Val(pwRequest).max_length > LengthCeiling

C4_PasswordLevels ==
    riskView = "password" =>
        /\ riskScore >= 80 => riskLabel = "Critical"
        /\ (60 <= riskScore /\ riskScore < 80) => riskLabel = "High"
        /\ (40 <= riskScore /\ riskScore < 60) => riskLabel = "Medium"
        /\ (20 <= riskScore /\ riskScore < 40) => riskLabel = "Low"
        /\ riskScore < 20 => riskLabel = "Very Low"

\* C4, its case: a boundary score rendered by the password view
C4_BoundaryRendered ==
    /\ riskView = "password"
    /\ riskScore = 80
    /\ riskLabel = "Critical"

\* the level a label of the phishing or the vishing view names
LevelNamed(label) ==
    CASE label = "Critical Risk" -> "Critical"
      [] label = "High Risk" -> "High"
      [] label = "Medium Risk" -> "Medium"
      [] label = "Low Risk" -> "Low"
      [] label = "Very Low Risk" -> "Very Low"
      [] OTHER -> label

\* the level the fixed thresholds give a score
ThresholdLevel(score) ==
    IF score >= 80 THEN "Critical"
    ELSE IF score >= 60 THEN "High"
    ELSE IF score >= 40 THEN "Medium"
    ELSE IF score >= 20 THEN "Low"
    ELSE "Very Low"

\* C5: the phishing and the vishing view name, for every score, the level
\* the fixed thresholds give it, which is the level the password view names.
C5_SameLevels ==
    riskView \in {"phishing", "vishing"} =>
        /\ LevelNamed(riskLabel) = ThresholdLevel(riskScore)
        /\ LevelNamed(riskLabel) = PwGetRiskLabel(riskScore)

\* C5, its case: a score below 20 rendered by the phishing view
C5_LowScoreRendered ==
    /\ riskView = "phishing"
    /\ riskScore < 20

C7_BlankRejected ==
    [][/\ (PwSubmit /\ Blank(pwForm.password)) =>
              UNCHANGED <<pwRequest, pwLoading, pwResult, pwProgress, pwTimers>>
       /\ (PwHashCrack /\ Blank(pwCrackDom.hash)) =>
              UNCHANGED <<pwRequest, pwLoading, pwResult, pwProgress, pwTimers>>
       /\ (PhSubmit /\ (Blank(phForm.emailSubject) \/ Blank(phForm.emailBody))) =>
              UNCHANGED <<phRequest, phLoading, phResult>>
       /\ (ViSubmit /\ Blank(viForm.callScript)) =>
              UNCHANGED <<viRequest, viLoading, viResult>>]_vars

\* C7, its case: the password form was submitted with white space only
C7_BlankPasswordSubmitted ==
    /\ pwToast = "Please enter a password"
    /\ pwForm.password = <<" ">>
    /\ pwRequest = Null
    /\ ~pwLoading

\* C8: every request of the password view has exactly one target: an
\* analyze request a non-blank password and no hash, a crack-hash request
\* a non-blank hash_value and no password.
C8_OneTarget ==
    pwRequest # Null =>
        LET r == Val(pwRequest)
        IN  /\ (r.password = Null) # (r.hash_value = Null)
            /\ r.kind = "analyze" => (r.password # Null /\ ~Blank(Val(r.password)))
            /\ r.kind = "crack" => (r.hash_value # Null /\ ~Blank(Val(r.hash_value)))

\* C8, its case: a crack-hash request in flight
C8_CrackRequestSent ==
    /\ pwRequest # Null
    /\ Val(pwRequest).kind = "crack"
    /\ Val(pwRequest).hash_value = Some(<<"h">>)

\* C9: after every submit loading returns to false in the end, whether or
\* not the back end answers.
C9_LoadingEnds == pwLoading ~> ~pwLoading

\* C9, its case: an analysis waiting for its answer
C9_Waiting ==
    /\ pwLoading
    /\ pwRequest # Null
    /\ pwProgress # Null
    /\ Val(pwProgress).current = 95

\* how severe a level label, a badge class or a colour class is
Severity(class) ==
    CASE class \in {"Very Low", "badge-success",
                    "text-green-700 bg-green-50 border-green-200",
                    "bg-green-50 border-green-200"} -> 0
      [] class \in {"Low", "Low Risk", "badge-warning",
                    "text-yellow-700 bg-yellow-50 border-yellow-200",
                    "bg-yellow-50 border-yellow-200"} -> 1
      [] class \in {"Medium", "Medium Risk", "badge-danger",
                    "text-orange-700 bg-orange-50 border-orange-200",
                    "bg-orange-50 border-orange-200"} -> 2
      [] class \in {"High", "High Risk",
                    "text-red-700 bg-red-50 border-red-200",
                    "bg-red-50 border-red-200"} -> 3
      [] class \in {"Critical", "Critical Risk"} -> 4

\* C11: in each of the three views the label, the badge class and the
\* colour class chosen for a score are at least as severe as those chosen
\* for every lower score.
C11_Monotonic ==
    /\ riskView = "password" =>
          \A a \in 0..riskScore :
              /\ Severity(PwGetRiskLabel(a)) <= Severity(riskLabel)
              /\ Severity(PwGetRiskBadge(a)) <= Severity(riskBadge)
              /\ Severity(PwGetRiskColor(a)) <= Severity(riskColor)
    /\ riskView = "phishing" =>
          \A a \in 0..riskScore :
              /\ Severity(PhGetRiskLabel(a)) <= Severity(riskLabel)
              /\ Severity(PhGetRiskBadge(a)) <= Severity(riskBadge)
              /\ Severity(PhGetRiskColor(a)) <= Severity(riskColor)
    /\ riskView = "vishing" =>
          \A a \in 0..riskScore :
              /\ Severity(ViGetRiskLabel(a)) <= Severity(riskLabel)
              /\ Severity(ViGetRiskBadge(a)) <= Severity(riskBadge)
              /\ Severity(ViGetRiskColor(a)) <= Severity(riskColor)

\* C11, its case: the password view renders a score of the High band, whose
\* badge is the one of the Medium band below it
C11_HighBandRendered ==
    /\ riskView = "password"
    /\ riskScore = 60
    /\ riskLabel = "High"
    /\ riskBadge = "badge-warning"
    /\ PwGetRiskBadge(59) = riskBadge
    /\ riskColor # PwGetRiskColor(59)

\* C12: every progress timer a password-analysis or hash-crack submit
\* starts is cleared by the time its request has completed, answered or
\* failed: whenever no analysis request is in flight no progress timer is
\* alive.
C12_NoTimerLeak == pwRequest = Null => TotalTimers = 0

\* C12, its case: a hash-crack request has failed and none is in flight
C12_CrackFailed ==
    /\ pwToast = "Hash cracking failed"
    /\ pwRequest = Null
    /\ ~pwLoading

\* C13: once a view is unmounted its auto-refresh interval is cleared, and
\* no timer-driven reload of statistics or history is issued for a view
\* that is not mounted.
C13_IntervalsCleared ==
    /\ [](\A v \in Views : appActiveTab # v => refreshIntervals[v] = Null)
    /\ [][/\ DashLoadAllStats("timer") => appActiveTab = "dashboard"
          /\ PwReload("timer") => appActiveTab = "password"
          /\ PhReload("timer") => appActiveTab = "phishing"
          /\ ViReload("timer") => appActiveTab = "vishing"]_vars

\* C13, its case: the dashboard was unmounted for the phishing view, whose
\* interval has issued a reload since
C13_DashboardUnmounted ==
    /\ appActiveTab = "phishing"
    /\ refreshIntervals["phishing"] # Null
    /\ refreshIntervals["dashboard"] = Null
    /\ phHist.older > 0

\* C17: the auto-refresh interval of the dashboard has a period of 5
\* seconds, the one of each of the password, phishing and vishing views a
\* period of 10 seconds.
C17_RefreshPeriods ==
    \A v \in Views :
        refreshIntervals[v] # Null =>
            Val(refreshIntervals[v]) = IF v = "dashboard" THEN 5000 ELSE 10000

\* C17, its case: the dashboard's interval has fired and its loadAllStats
\* call is at its await
C17_DashboardTimerFired ==
    /\ appActiveTab = "dashboard"
    /\ refreshIntervals["dashboard"] # Null
    /\ \E i \in 1..Len(dashCalls) : dashCalls[i].trigger = "timer"

\* the requests of the i-th call that were answered
DashAnswered(i) == AllPending \ dashCalls[i].pending

\* C14: when one of the three statistics requests of a loadAllStats call
\* fails after the other two were answered, the statistics of those two
\* are stored for display.
C14_SettledStored ==
    [][\A i \in 1..Len(dashCalls), w \in AllPending :
          (DashStatsFail(i, w) /\ dashCalls[i].pending = {w}) =>
              /\ "password" \in DashAnswered(i) => dashPasswordStats' # Null
              /\ "phishing" \in DashAnswered(i) => dashPhishingStats' # Null
              /\ "vishing" \in DashAnswered(i) => dashVishingStats' # Null]_vars

\* C14, its case: the call of the mount effect was rejected and the page is
\* rendered
C14_MountCallRejected ==
    /\ DashShown
    /\ dashRejected = Some("mount")
    /\ dashCalls = <<>>

\* C15: a timer-driven reload that fails shows no toast, in the dashboard
\* and in the three simulators.
C15_SilentRefresh ==
    [][/\ \A i \in 1..Len(dashCalls), w \in AllPending :
             (DashStatsFail(i, w) /\ dashCalls[i].trigger = "timer") =>
                 UNCHANGED dashToast
       /\ \A w \in {"latest", "older"} :
             /\ PwHistoryDone(w, FALSE) => UNCHANGED pwToast
             /\ PwStatsDone(w, FALSE) => UNCHANGED pwToast
             /\ PhHistoryDone(w, FALSE) => UNCHANGED phToast
             /\ ViHistoryDone(w, FALSE) => UNCHANGED viToast]_vars

\* C15, its case: a call the dashboard's interval started was rejected
C15_TimerCallRejected ==
    /\ appActiveTab = "dashboard"
    /\ dashRejected = Some("timer")
    /\ dashToast = "Failed to load dashboard statistics"

\* a getHistory or getStats request was issued between h and h2
Issued(h, h2) ==
    /\ h2.latest
    /\ h2.older = IF h.latest THEN Min(h.older + 1, MaxOlderReqs) ELSE h.older

\* C16: every answered password analysis or hash crack issues a history
\* reload and a statistics reload, every answered phishing or vishing
\* analysis a history reload; a failed analysis issues none.
C16_ReloadAfterSuccess ==
    [][/\ \A res \in ResultSamples :
             PwRequestOk(res) => Issued(pwHist, pwHist') /\ Issued(pwStats, pwStats')
       /\ \A score \in SampleScores :
             /\ PhAnalyzeOk(score) => Issued(phHist, phHist')
             /\ ViAnalyzeOk(score) => Issued(viHist, viHist')
       /\ \A d \in ErrorDetails :
             /\ PwRequestFail(d) => UNCHANGED <<pwHist, pwStats>>
             /\ PhAnalyzeFail(d) => UNCHANGED phHist
             /\ ViAnalyzeFail(d) => UNCHANGED viHist]_vars

\* C16, its case: a hash crack was answered and both reloads are in flight
\* beside the requests of the mount effect
C16_CrackAnswered ==
    /\ pwToast = "Hash analysis complete!"
    /\ pwResult # Null
    /\ pwHist.latest /\ pwHist.older > 0
    /\ pwStats.latest /\ pwStats.older > 0

\* C18: the file selected for transcription has a name ending in .mp3,
\* .wav or .m4a and a size of at most 50 MB; any other file is rejected
\* and never becomes selectedFile.
C18_OnlyAudioSelected ==
    viSelectedFile # Null =>
        /\ HasValidExtension(Val(viSelectedFile))
        /\ Val(viSelectedFile).size <= MaxFileBytes

\* C18, its case: a file of another extension was offered and rejected
C18_OtherExtensionRejected ==
    /\ appActiveTab = "vishing"
    /\ viToast = "Invalid format. Please upload mp3, wav, or m4a files."
    /\ viSelectedFile = Null

\* C19: when an analyze or crack-hash request fails the toast shows the
\* detail of the response when there is one and the handler's default
\* message otherwise, and the password view is left with loading false,
\* result null, attackProgress null, history and stats untouched.
C19_FailureSurfaced ==
    [][\A d \in ErrorDetails :
          PwRequestFail(d) =>
              /\ pwToast' = IF d # Null THEN Val(d)
                            ELSE IF Val(pwRequest).kind = "analyze"
                            THEN "Analysis failed" ELSE "Hash cracking failed"
              /\ pwLoading' = FALSE
              /\ pwResult' = Null
              /\ pwProgress' = Null
              /\ UNCHANGED <<pwHist, pwStats>>]_vars

\* C19, its case: an analyze request failed with a detail, after its
\* progress timer had fired
C19_AnalyzeFailedWithDetail ==
    /\ pwToast = "detail"
    /\ pwActiveTab = "analyze"
    /\ pwTimers.analyze > 0
    /\ pwRequest = Null
    /\ ~pwLoading
    /\ pwProgress = Null

\* C20: exactly one view is on display, the one of the active tab, for
\* each of the five tabs the navigation offers, the behaviour analysis
\* included.
C20_OneViewPerTab ==
    /\ appActiveTab \in Tabs
    /\ Cardinality(AppRendered(appActiveTab)) = 1
    /\ appActiveTab = "behavior" => AppRendered(appActiveTab) = {"UserBehaviorAnalysis"}

\* C20, its case: the User Behavior tab was chosen and the dashboard
\* unmounted
C20_BehaviorTabChosen ==
    /\ appActiveTab = "behavior"
    /\ \A v \in Views : refreshIntervals[v] = Null

\* C21: in the behaviour view the badge and the Risk Level panel chosen for
\* a level are at least as severe as those chosen for every lower level of
\* Very Low, Low, Medium, High, Critical.
C21_LevelMonotonic ==
    riskView = "behavior" =>
        \A lower \in RiskLevels :
            Severity(lower) <= Severity(riskLabel) =>
                /\ Severity(BhRiskBadge(lower)) <= Severity(riskBadge)
                /\ Severity(BhRiskPanel(lower)) <= Severity(riskColor)

\* C21, its case: the behaviour view renders a Low profile in green, and
\* would render a Very Low one in red
C21_LowProfileRendered ==
    /\ riskView = "behavior"
    /\ riskLabel = "Low"
    /\ riskBadge = "badge-success"
    /\ riskColor = "bg-green-50 border-green-200"
    /\ BhRiskBadge("Very Low") = "badge-danger"
    /\ BhRiskPanel("Very Low") = "bg-red-50 border-red-200"

\* C22: whenever loading is true in the password simulator attackProgress
\* is not null: the progress bar is on display for the whole of every
\* analysis in flight, also when the submit came within the 500 ms after
\* which the run before it clears the bar.
C22_ProgressWhileLoading ==
    pwLoading => pwProgress # Null

\* C22, its case: a request is in flight, its bar on display, and the
\* 500 ms timeout of the run before it is still pending
C22_SubmitWithinDelay ==
    /\ pwLoading
    /\ pwRequest # Null
    /\ pwProgress # Null
    /\ pwTimeouts > 0

\* C23: within one attack run the progress on display never decreases: it
\* is at most 95 while the request is pending, it becomes 100 only with a
\* successful response, and it keeps that value until the bar is removed,
\* whatever runs succeeded or failed before.
C23_ProgressNeverDecreases ==
    [][/\ (pwRequest' # Null /\ pwProgress' # Null) =>
              Val(pwProgress').current <= 95
       /\ (pwProgress' # Null /\ Val(pwProgress').current = 100) =>
              \/ pwRequest # Null /\ pwRequest' = Null /\ pwResult' # Null
              \/ pwProgress = pwProgress'
       /\ (/\ pwProgress # Null
           /\ pwProgress' # Null
           /\ ~(pwRequest = Null /\ pwRequest' # Null)) =>
              Val(pwProgress').current >= Val(pwProgress).current]_vars

\* C23, its case: a run has succeeded after an earlier run failed; the bar
\* reads 100 and waits for its 500 ms timeout
C23_CompleteAfterFailedRun ==
    /\ pwProgress = Some([current |-> 100, status |-> "Complete!"])
    /\ pwResult # Null
    /\ pwTimeouts > 0
    /\ TotalTimers > 0

Settles(h, h2) ==
    /\ h.shown = "latest"
    /\ ~h.latest
    /\ ~h2.latest
    /\ h2.older = 0

\* C25: once every history request of a simulator has completed, the
\* history on display is the answer to the request issued last: with that
\* answer on display, no completion of an older request, from the timer, the
\* Refresh button or a reload after a submit, replaces it.
C25_LatestAnswerShown ==
    [][/\ Settles(pwHist, pwHist') => pwHist'.shown = "latest"
       /\ Settles(phHist, phHist') => phHist'.shown = "latest"
       /\ Settles(viHist, viHist') => viHist'.shown = "latest"]_vars

\* C25, its case: the answer to the last request is on display while an
\* older request of the password view is still in flight
C25_OlderStillInFlight ==
    /\ appActiveTab = "password"
    /\ pwHist.shown = "latest"
    /\ ~pwHist.latest
    /\ pwHist.older > 0

\* C26: the hash_type exportResults writes is the hash type submitted in the
\* request that produced the exported result, for results of the analyze
\* form and of the crack-hash form, also when the form's hash algorithm was
\* changed after the result arrived; with no result nothing is exported.
C26_ExportedHashType ==
    [][/\ (pwExported' # Null /\ pwExported' # pwExported) =>
              /\ pwResult # Null
              /\ Val(pwExported').result = Val(pwResult)
              /\ Val(pwExported').hash_type = Val(pwAnswered).hash_type
       /\ pwResult = Null => pwExported' \in {pwExported, Null}]_vars

\* C26, its case: the result of a crack-hash request for a SHA256 hash has
\* been exported
C26_CrackResultExported ==
    /\ pwExported # Null
    /\ pwResult # Null
    /\ Val(pwExported).result = Val(pwResult)
    /\ Val(pwAnswered).kind = "crack"
    /\ Val(pwAnswered).hash_type = "SHA256"

\* C27: an analyze request carries the user's metadata exactly when the
\* metadata panel is shown and the name or the date of birth is not empty,
\* and null in every other case; a crack-hash request carries null
\* metadata whatever its attack type.
C27_MetadataWhenShown ==
    [][(pwRequest = Null /\ pwRequest' # Null) =>
          IF Val(pwRequest').kind = "analyze"
          THEN Val(pwRequest').user_metadata =
                  IF /\ pwShowMetadata
                     /\ pwForm.userMetadata # [name |-> <<>>, dob |-> <<>>]
                  THEN Some(pwForm.userMetadata) ELSE Null
          ELSE Val(pwRequest').user_metadata = Null]_vars

\* C27, its case: an analyze request went out with a name typed and the
\* metadata panel hidden again
C27_HiddenPanelRequest ==
    /\ pwRequest # Null
    /\ Val(pwRequest).kind = "analyze"
    /\ Val(pwRequest).user_metadata = Null
    /\ pwForm.userMetadata.name = <<"a">>
    /\ ~pwShowMetadata
    /\ pwTimeouts = 0
    /\ pwResult = Null
    /\ pwExported = Null

\* the toasts of handleFileSelect's two rejections
FileRejections ==
    {"Invalid format. Please upload mp3, wav, or m4a files.",
     "File size exceeds 50MB limit"}

\* C28: after handleFileSelect has rejected a file, for its format or its
\* size, no file is selected for transcription (selectedFile is null and
\* the Transcribe button disabled), also when a valid file had been
\* selected before.
C28_RejectionDeselects ==
    [][(viToast' # viToast /\ viToast' \in FileRejections) =>
          viSelectedFile' = Null]_vars

\* C28, its case: a file above 50 MB has been rejected with no file
\* selected before it
C28_OversizeRejected ==
    /\ appActiveTab = "vishing"
    /\ viToast = "File size exceeds 50MB limit"
    /\ viSelectedFile = Null
    /\ ~viLoadingTranscription

\* a step in which a transcription of the mounted vishing view ends
TranscriptionEnds ==
    /\ viLoadingTranscription
    /\ ~viLoadingTranscription'
    /\ appActiveTab' = appActiveTab

\* C29: a transcription changes only what it must: with a transcript in
\* the response callScript becomes the transcript and selectedFile null
\* while callerId and callDuration keep their values; without one, or on
\* failure, the form data and selectedFile are unchanged; in every case the
\* analysis state (loading, result, request) is untouched.
C29_TranscriptionFrame ==
    [][TranscriptionEnds =>
          /\ <<viLoading, viResult, viRequest, viHist>>' =
                <<viLoading, viResult, viRequest, viHist>>
          /\ viForm'.callerId = viForm.callerId
          /\ viForm'.callDuration = viForm.callDuration
          /\ \/ /\ viToast' = "Transcription complete! Ready to analyze."
                /\ Some(viForm'.callScript) \in TranscriptSamples
                /\ viForm'.callScript # <<>>
                /\ viSelectedFile' = Null
             \/ /\ viToast' # "Transcription complete! Ready to analyze."
                /\ viForm' = viForm
                /\ viSelectedFile' = viSelectedFile]_vars

\* C29, its case: a transcript has replaced the script of a form whose
\* caller id and duration were filled in
C29_TranscriptStored ==
    /\ viToast = "Transcription complete! Ready to analyze."
    /\ viForm = [callScript |-> <<"t">>, callerId |-> <<"a">>, callDuration |-> 180]
    /\ viSelectedFile = Null
    /\ ~viLoadingTranscription

\* C30: once the dashboard statistics have been loaded they stay on
\* display during every later automatic or manual refresh: the dashboard
\* does not go back to the full-screen loading state, and a refresh that
\* fails leaves the statistics loaded before unchanged.
C30_StatsStayShown ==
    [][/\ dashPasswordStats' # Null => ~dashLoading'
       /\ (/\ dashPasswordStats # Null
           /\ appActiveTab' = appActiveTab
           /\ dashRejected' # Null
           /\ Len(dashCalls') < Len(dashCalls)) =>
              <<dashPasswordStats, dashPhishingStats, dashVishingStats>>' =
                 <<dashPasswordStats, dashPhishingStats, dashVishingStats>>]_vars

\* C30, its case: with statistics loaded, a manual refresh has failed and
\* the page is on display again
C30_RefreshFailedAfterLoad ==
    /\ appActiveTab = "dashboard"
    /\ dashPasswordStats # Null
    /\ dashRejected = Some("refresh")
    /\ dashToast = "Failed to load dashboard statistics"
    /\ ~dashLoading
    /\ dashCalls = <<>>

====
